---- MODULE Spec2Model ----
(***************************************************************************)
(* The control-message chain and lifecycle of the four codec classes of    *)
(* libavjs-webcodecs-polyfill: AudioEncoder (src/src/audio-encoder.ts),    *)
(* AudioDecoder (src/rollup.config.mjs, third copy), VideoDecoder          *)
(* (src/src/video-decoder.ts) and VideoEncoder (src/src/video-encoder.ts,  *)
(* second copy).                                                           *)
(*                                                                         *)
(* Every instance owns one promise chain, the field _p.  A public method   *)
(* runs synchronously: it checks state, changes state and the queue-size   *)
(* counter, and appends promises with `this._p = this._p.then(step)`.  A   *)
(* promise made by then(step) runs step once its parent is fulfilled, and  *)
(* is rejected without running step when its parent is rejected; a         *)
(* trailing .catch(this._error) turns a rejection into a call of the error *)
(* callback.  A step suspends at every await of a backend primitive; the   *)
(* backend answers with success or failure, and public methods may be      *)
(* called while a step is suspended.                                       *)
(***************************************************************************)
EXTENDS Integers, Sequences, FiniteSets

\* Bounds of the model.
MaxCalls == 4
MaxFail == 2

Classes == {"AudioEncoder", "AudioDecoder", "VideoEncoder", "VideoDecoder"}

VARIABLES
    cls,        \* the class of the instance
    state,      \* this.state
    queueSize,  \* this.encodeQueueSize / this.decodeQueueSize
    prom,       \* every promise of the chain, in creation order
    _p,         \* this._p: index in prom of the chain's tail, 0 = Promise.all([])
    libav,      \* this._libav is non-null
    c,          \* this._c is non-zero
    filt,       \* this._filter_graph / this._sws is non-zero
    pool,       \* length of the array libavs of idle backend instances
    out,        \* backend instances handed out by get() and not yet given to free()
    errorLog,   \* arguments of the calls of this._error, in order
    failed,     \* whether a decode, encode or flush step has caught a failure:
                \* "none", "sync" (no backend instance to call), "backend"
    ev,         \* what the last action was or made observable: a call of a public
                \* method, a "dequeue" event, a call of the output or error callback
    lastCall,   \* the last public method called, what it threw, and the codec
                \* given to configure()
    calls,      \* number of public-method calls so far
    fails,      \* number of backend failures so far
    unsupported,     \* configure() was accepted with a codec that is not supported
    metadataFilled,  \* this._outputMetadataFilled / this._extradataSet
    delivered,       \* a chunk went to the output callback since the flag was reset
    input,      \* the call of a static method, a module function or a method of
                \* AudioData / VideoFrame under study, with its arguments
    result,     \* what that call has returned or thrown so far
    queue,      \* encoder pipeline: the steps appended to this._p and not yet run,
                \* and whether the promise in front of them was rejected
    enc,        \* encoder pipeline: the private fields of the encoder
    backend,    \* encoder pipeline: the backend instances and what lives in them
    trace       \* encoder pipeline: the frames that entered and left the resample
                \* filter, the frames given to the codec and the chunks delivered

vars == <<cls, state, queueSize, prom, _p, libav, c, filt, pool, out,
          errorLog, failed, ev, lastCall, calls, fails,
          unsupported, metadataFilled, delivered, input, result,
          queue, enc, backend, trace>>

pipelineVars == <<queue, enc, backend, trace>>

----------------------------------------------------------------------------
\* Promises.

Blank == [kind |-> "-", par |-> 0, st |-> "fulfilled", arg |-> "-", why |-> "-"]

Settled(pr, i) == IF i = 0 THEN TRUE ELSE pr[i].st \in {"fulfilled", "rejected"}
Rejected(pr, i) == IF i = 0 THEN FALSE ELSE pr[i].st = "rejected"
Suspended(pr, i) == IF i = 0 THEN FALSE ELSE pr[i].st \in {"get", "init", "run"}

\* this._p = this._p.then(step): o carries state, prom, _p and what was thrown.
Then(o, kind, arg) ==
    [o EXCEPT !.prom = Append(o.prom, [kind |-> kind, par |-> o.p, st |-> "pending",
                                       arg |-> arg, why |-> "-"]),
              !.p = Len(o.prom) + 1]

\* step().catch(this._error) is attached by configure and by decode/encode only.
Catches(kind) == kind \in {"configure", "code"}

Fulfil(pr, i) == [pr EXCEPT ![i] = Blank]
Reject(pr, i, why) == [pr EXCEPT ![i] = [Blank EXCEPT !.st = "rejected", !.why = why]]

Here == [state |-> state, prom |-> prom, p |-> _p, threw |-> "none", detached |-> FALSE,
         codec |-> "-"]

----------------------------------------------------------------------------
\* What differs between the classes.

IsEncoder(k) == k \in {"AudioEncoder", "VideoEncoder"}
\* dispatchEvent(new CustomEvent("dequeue")) in the decode/encode step
DispatchesDequeue(k) == k # "VideoDecoder"
DecrementsAtStartMutant(k) == FALSE
\* the counter is decremented before the try block (after it in VideoDecoder)
DecrementsAtStart(k) == k # "VideoDecoder"
\* flush() begins with the check state !== "configured"
FlushChecksState(k) == k # "VideoDecoder"
\* the catch block of the decode/encode step ends with return
ReturnsOnError(k) == k \in {"AudioDecoder", "VideoEncoder"}
\* the configure step awaits a primitive after ff_init_decoder/ff_init_encoder
HasPostInit(k) == k # "VideoDecoder"

----------------------------------------------------------------------------
\* _resetAudioEncoder and its siblings.

ClosedGuardMutant(st) == FALSE
\* 1. If [[state]] is "closed", throw an InvalidStateError.
ClosedGuard(st) == st = "closed"

_resetMutant(o) ==
    Then([o EXCEPT !.state = "unconfigured",
                   !.prom = [k \in DOMAIN o.prom |->
                                IF o.prom[k].st = "pending" THEN Blank ELSE o.prom[k]]],
         "free", "-")
_reset(o) ==
    IF ClosedGuard(o.state)
    THEN [o EXCEPT !.threw = "InvalidStateError"]
    ELSE Then([o EXCEPT !.state = "unconfigured"], "free", "-")

IsAbortMutant(exception) == FALSE
\* exception.name !== "AbortError" decides whether the error callback is queued
IsAbort(exception) == exception = "AbortError"

\* _closeAudioEncoder and its siblings.
_close(o, exception) ==
    LET r == _reset(o) IN
    IF r.threw # "none" THEN r
    ELSE LET a == Then([r EXCEPT !.state = "closed"], "free", "-") IN
         IF ~IsAbort(exception) THEN Then(a, "error", exception) ELSE a

----------------------------------------------------------------------------
\* No static method, module function or data-object method is being called.
NoCall == [fn |-> "none"]

\* The encoder pipeline right after the constructor.  A field that holds null
\* or a value is <<>> or <<value>>; a handle is 0 or a positive number.
NoSteps == [rejected |-> FALSE, why |-> "-", steps |-> <<>>]
NewEncoder ==
    [_libav |-> 0, _c |-> 0, _pts |-> <<>>,
     _filter_in_ctx |-> <<>>, _filter_out_ctx |-> <<>>, _filter_graph |-> 0,
     _sws |-> 0, _swsFrame |-> 0, _swsIn |-> <<>>, _swsOut |-> <<>>]
NoBackend ==
    [instances |-> 0, libavs |-> <<>>, handles |-> 0,
     graphs |-> {}, contexts |-> {}, frames |-> {}]
NoTrace == [inputs |-> <<>>, filtered |-> <<>>, sent |-> <<>>, chunks |-> <<>>,
            last |-> <<>>]
PipelineIdle ==
    queue = NoSteps /\ enc = NewEncoder /\ backend = NoBackend /\ trace = NoTrace

Init ==
    /\ cls \in Classes
    /\ state = "unconfigured"
    /\ queueSize = 0
    /\ prom = <<>>
    /\ _p = 0
    /\ libav = FALSE
    /\ c = FALSE
    /\ filt = FALSE
    /\ pool = 0
    /\ out = 0
    /\ errorLog = <<>>
    /\ failed = "none"
    /\ ev = {}
    /\ lastCall = [op |-> "new", threw |-> "none", detached |-> FALSE, codec |-> "-"]
    /\ calls = 0
    /\ fails = 0
    /\ unsupported = FALSE
    /\ metadataFilled = FALSE
    /\ delivered = FALSE
    /\ input = NoCall
    /\ result = NoCall
    /\ PipelineIdle

\* A public method returned or threw: o is the instance after it.
Called(op, o) ==
    /\ calls < MaxCalls
    /\ calls' = calls + 1
    /\ lastCall' = [op |-> op, threw |-> o.threw, detached |-> o.detached,
                    codec |-> o.codec]
    /\ state' = o.state
    /\ prom' = o.prom
    /\ _p' = o.p
    /\ ev' = {"call"}
    /\ UNCHANGED <<cls, input, result, pipelineVars, libav, c, filt, pool, out, errorLog, failed, fails,
                   metadataFilled, delivered>>

Throw(o, what) == [o EXCEPT !.threw = what]

\* config.codec as libavs.decoder() / libavs.encoder() classify it: a codec the
\* loaded backend has, a known codec it has not (they return null), or an
\* identifier of no known codec (they throw TypeError).
Codecs == {"supported", "unsupported", "unrecognized"}

\* configure(config).  The codec is looked at by the configure step only.
configure(codec) ==
    LET h == [Here EXCEPT !.codec = codec]
        o1 == IF libav THEN Then(h, "free", "-") ELSE h
        o2 == Then([o1 EXCEPT !.state = "configured"], "configure", codec)
    IN /\ Called("configure",
                 IF ClosedGuard(state) THEN Throw(h, "InvalidStateError") ELSE o2)
       /\ unsupported' = (unsupported \/ (~ClosedGuard(state) /\ codec # "supported"))
       /\ UNCHANGED queueSize

reset ==
    /\ Called("reset", _reset(Here))
    /\ UNCHANGED <<queueSize, unsupported>>

close ==
    /\ Called("close", _close(Here, "AbortError"))
    /\ UNCHANGED <<queueSize, unsupported>>

\* encode(data) / decode(chunk).  scale: the input needs the resample filter
\* (AudioEncoder: always) or the rescaler (VideoEncoder: when its size or
\* format differs from the configured output).
ScaleChoices(k) ==
    IF k = "AudioEncoder" THEN {TRUE}
    ELSE IF k = "VideoEncoder" THEN BOOLEAN ELSE {FALSE}

\* Only encode() takes an input that can be detached: a closed AudioData or
\* VideoFrame, whose _libavGetData() is null.
DetachedChoices(k) == IF k \in {"AudioEncoder", "VideoEncoder"} THEN BOOLEAN ELSE {FALSE}

DetachedGuardMutant(detached) == FALSE
\* if (data._libavGetData() === null) throw new TypeError("Detached");
DetachedGuard(detached) == detached

code(scale, detached) ==
    LET h == [Here EXCEPT !.detached = detached] IN
    /\ scale \in ScaleChoices(cls)
    /\ detached \in DetachedChoices(cls)
    /\ IF DetachedGuard(detached)
       THEN Called("code", Throw(h, "TypeError")) /\ UNCHANGED queueSize
       ELSE IF state # "configured"
       THEN Called("code", Throw(h, "InvalidStateError")) /\ UNCHANGED queueSize
       ELSE /\ queueSize' = queueSize + 1
            /\ Called("code", Then(h, "code", IF scale THEN "scale" ELSE "-"))
    /\ UNCHANGED unsupported

FlushTailMutant(ret, old) == old
\* const ret = this._p.then(...); this._p = ret;
FlushTail(ret, old) == ret

flush ==
    LET o == Then(Here, "flush", "-") IN
    /\ Called("flush",
              IF FlushChecksState(cls) /\ state # "configured"
              THEN Throw(Here, "InvalidStateError")
              ELSE [o EXCEPT !.p = FlushTail(o.p, _p)])
    /\ UNCHANGED <<queueSize, unsupported>>

----------------------------------------------------------------------------
\* The steps of the chain.

Fulfilled(pr, i) == IF i = 0 THEN TRUE ELSE pr[i].st = "fulfilled"
Ready(i, kind) ==
    /\ prom[i].kind = kind
    /\ prom[i].st = "pending"
    /\ Fulfilled(prom, prom[i].par)
Awaiting(i, kind, st) == prom[i].kind = kind /\ prom[i].st = st

\* The parent was rejected: the step is not run.  With .catch(this._error) the
\* error callback gets the reason and the chain goes on fulfilled.
Skip(i) ==
    /\ prom[i].st = "pending"
    /\ Rejected(prom, prom[i].par)
    /\ IF Catches(prom[i].kind)
       THEN /\ errorLog' = Append(errorLog, prom[prom[i].par].why)
            /\ prom' = Fulfil(prom, i)
            /\ ev' = {"error"}
       ELSE /\ prom' = Reject(prom, i, prom[prom[i].par].why)
            /\ ev' = {}
            /\ UNCHANGED errorLog
    /\ UNCHANGED <<cls, input, result, pipelineVars, state, queueSize, _p, libav, c, filt, pool, out,
                   failed, lastCall, calls, unsupported, fails,
                   metadataFilled, delivered>>

\* libavs.free(this._libav); this._libav = null;
Release ==
    /\ libav' = FALSE
    /\ pool' = IF libav THEN pool + 1 ELSE pool
    /\ out' = IF libav THEN out - 1 ELSE out

\* _free(): nothing to await when neither filter/rescaler nor codec is set.
FreeStart(i) ==
    /\ Ready(i, "free")
    /\ IF filt \/ c
       THEN /\ prom' = [prom EXCEPT ![i].st = "run"]
            /\ UNCHANGED <<libav, pool, out>>
       ELSE /\ prom' = Fulfil(prom, i)
            /\ Release
    /\ ev' = {}
    /\ UNCHANGED <<cls, input, result, pipelineVars, state, queueSize, _p, c, filt, errorLog, failed,
                   lastCall, calls, unsupported, fails, metadataFilled, delivered>>

BackendFails == fails < MaxFail /\ fails' = fails + 1

FreeDone(i, outcome) ==
    /\ Awaiting(i, "free", "run")
    /\ \/ /\ outcome = "ok"
          /\ filt' = FALSE /\ c' = FALSE
          /\ Release
          /\ prom' = Fulfil(prom, i)
          /\ UNCHANGED fails
       \/ /\ outcome = "failFilter" /\ filt
          /\ BackendFails
          /\ prom' = Reject(prom, i, "BackendError")
          /\ UNCHANGED <<filt, c, libav, pool, out>>
       \/ /\ outcome = "failCodec" /\ c
          /\ BackendFails
          /\ filt' = FALSE
          /\ prom' = Reject(prom, i, "BackendError")
          /\ UNCHANGED <<c, libav, pool, out>>
    /\ ev' = {}
    /\ UNCHANGED <<cls, input, result, pipelineVars, state, queueSize, _p, errorLog, failed, lastCall, calls,
                   unsupported, metadataFilled, delivered>>

\* VideoDecoder looks config.codec up in libavs.decoders itself; the other
\* three classes call libavs.decoder() / libavs.encoder(), which throw
\* TypeError("Unrecognized codec") in the default case of their switch.
ThrowsOnUnrecognized(k) == k # "VideoDecoder"

\* The configure step up to its first await.  The step begins with the support
\* check: what it throws reaches .catch(this._error); an unsupported codec runs
\* the close algorithm inside the step, and what that throws reaches the same
\* handler.
ConfigureStart(i) ==
    /\ Ready(i, "configure")
    /\ IF prom[i].arg = "unrecognized" /\ ThrowsOnUnrecognized(cls)
       THEN /\ errorLog' = Append(errorLog, "TypeError")
            /\ prom' = Fulfil(prom, i)
            /\ ev' = {"error"}
            /\ UNCHANGED <<state, _p>>
       ELSE
       IF prom[i].arg # "supported"
       THEN LET r == _close(Here, "NotSupportedError") IN
            IF r.threw # "none"
            THEN /\ errorLog' = Append(errorLog, r.threw)
                 /\ prom' = Fulfil(prom, i)
                 /\ ev' = {"error"}
                 /\ UNCHANGED <<state, _p>>
            ELSE /\ state' = r.state
                 /\ prom' = Fulfil(r.prom, i)
                 /\ _p' = r.p
                 /\ ev' = {}
                 /\ UNCHANGED errorLog
       ELSE /\ prom' = [prom EXCEPT ![i].st = "get"]
            /\ ev' = {}
            /\ UNCHANGED <<state, _p, errorLog>>
    /\ LET clears == cls = "AudioEncoder" /\ prom[i].arg # "unrecognized" IN
       /\ metadataFilled' = IF clears THEN FALSE ELSE metadataFilled
       /\ delivered' = IF clears THEN FALSE ELSE delivered
    /\ UNCHANGED <<cls, input, result, pipelineVars, queueSize, libav, c, filt, pool, out, failed,
                   lastCall, calls, unsupported, fails>>

\* const libav = this._libav = await libavs.get();  get() takes an idle
\* instance from the pool, or makes one, which can fail.
ConfigureGet(i, ok) ==
    /\ Awaiting(i, "configure", "get")
    /\ IF ok
       THEN /\ libav' = TRUE
            /\ pool' = IF pool > 0 THEN pool - 1 ELSE pool
            /\ out' = out + 1
            /\ prom' = [prom EXCEPT ![i].st = "init"]
            /\ ev' = {}
            /\ UNCHANGED <<errorLog, fails>>
       ELSE /\ pool = 0
            /\ BackendFails
            /\ errorLog' = Append(errorLog, "BackendError")
            /\ prom' = Fulfil(prom, i)
            /\ ev' = {"error"}
            /\ UNCHANGED <<libav, pool, out>>
    /\ UNCHANGED <<cls, input, result, pipelineVars, state, queueSize, _p, c, filt, failed, lastCall, calls,
                   unsupported, metadataFilled, delivered>>

\* ff_init_encoder / ff_init_decoder and the awaits after it.  VideoEncoder
\* clears _extradataSet once ff_init_encoder has returned.
ConfigureInit(i, outcome) ==
    /\ Awaiting(i, "configure", "init")
    /\ \/ /\ outcome = "ok"
          /\ c' = TRUE
          /\ filt' = IF cls = "VideoEncoder" THEN FALSE ELSE filt
          /\ ev' = {}
          /\ UNCHANGED <<errorLog, fails>>
       \/ /\ outcome = "failInit"
          /\ BackendFails
          /\ errorLog' = Append(errorLog, "BackendError")
          /\ ev' = {"error"}
          /\ UNCHANGED <<c, filt>>
       \/ /\ outcome = "failPost" /\ HasPostInit(cls)
          /\ BackendFails
          /\ c' = TRUE
          /\ errorLog' = Append(errorLog, "BackendError")
          /\ ev' = {"error"}
          /\ UNCHANGED filt
    /\ prom' = Fulfil(prom, i)
    /\ metadataFilled' = IF cls = "VideoEncoder" /\ c' THEN FALSE ELSE metadataFilled
    /\ delivered' = IF cls = "VideoEncoder" /\ c' THEN FALSE ELSE delivered
    /\ UNCHANGED <<cls, input, result, pipelineVars, state, queueSize, _p, libav, pool, out, failed,
                   lastCall, calls, unsupported>>

\* catch (ex) { this._p = this._p.then(() => { this._closeX(ex); }); }
Caught(pr, i) == Fulfil(Then([Here EXCEPT !.prom = pr], "close", "EncodingError").prom, i)

\* The decode/encode step up to its first await.  With this._libav null the
\* first use of libav inside the try block throws.
CodeStart(i) ==
    /\ Ready(i, "code")
    /\ queueSize' = IF DecrementsAtStart(cls) \/ ~libav THEN queueSize - 1 ELSE queueSize
    /\ ev' = IF DispatchesDequeue(cls) THEN {"dequeue"} ELSE {}
    /\ IF ~libav
       THEN /\ prom' = Caught(prom, i)
            /\ _p' = Len(prom) + 1
            /\ failed' = IF failed = "none" THEN "sync" ELSE failed
       ELSE /\ prom' = [prom EXCEPT ![i].st = "run"]
            /\ UNCHANGED <<_p, failed>>
    /\ UNCHANGED <<cls, input, result, pipelineVars, state, libav, c, filt, pool, out, errorLog,
                   lastCall, calls, unsupported, fails, metadataFilled, delivered>>

\* The backend answers the decode/encode step.
\*   ok0, ok1   success with no output / with output
\*   failEarly  building the filter graph or rescaler fails
\*   fail       ff_decode_multi / ff_encode_multi / avcodec_send_frame fails
\*   failLate   encoders: fetching the extradata fails, after the outputs
\* An encoder that has outputs and has not filled its metadata yet fetches the
\* extradata and sets the flag; the chunks go out with the metadata record
\* whenever the flag is set.
CodeDone(i, outcome) ==
    LET needs == prom[i].arg = "scale"
        late == outcome = "failLate" /\ ~ReturnsOnError(cls)
        outputs == outcome = "ok1" \/ late
    IN
    /\ Awaiting(i, "code", "run")
    /\ \/ /\ outcome \in {"ok0", "ok1"} /\ c
          /\ filt' = (filt \/ needs)
          /\ prom' = Fulfil(prom, i)
          /\ metadataFilled' = (metadataFilled \/ (outcome = "ok1" /\ IsEncoder(cls)))
          /\ UNCHANGED <<_p, failed, fails>>
       \/ /\ \/ outcome = "failEarly" /\ needs /\ ~filt /\ UNCHANGED filt
             \/ outcome = "fail" /\ filt' = (filt \/ needs)
             \/ /\ outcome = "failLate" /\ IsEncoder(cls) /\ c /\ ~metadataFilled
                /\ filt' = (filt \/ needs)
          /\ BackendFails
          /\ prom' = Caught(prom, i)
          /\ _p' = Len(prom) + 1
          /\ failed' = "backend"
          /\ UNCHANGED metadataFilled
    /\ queueSize' = IF DecrementsAtStart(cls) THEN queueSize ELSE queueSize - 1
    /\ delivered' = (delivered \/ (outputs /\ IsEncoder(cls)))
    /\ ev' = IF outputs
             THEN {"output"} \cup (IF metadataFilled' THEN {"meta"} ELSE {})
             ELSE {}
    /\ UNCHANGED <<cls, input, result, pipelineVars, state, libav, c, pool, out, errorLog, lastCall, calls, unsupported>>

\* The flush step: if (!this._c) return;
FlushStart(i) ==
    /\ Ready(i, "flush")
    /\ prom' = IF c THEN [prom EXCEPT ![i].st = "run"] ELSE Fulfil(prom, i)
    /\ ev' = IF c THEN {} ELSE {"resolve"}
    /\ UNCHANGED <<cls, input, result, pipelineVars, state, queueSize, _p, libav, c, filt, pool, out,
                   errorLog, failed, lastCall, calls, unsupported, fails,
                   metadataFilled, delivered>>

\* What a successful flush step leaves in the metadata flag.  VideoEncoder
\* fetches the extradata whenever the flag is not set; AudioEncoder only when
\* the filter gave it a frame; the decoders have no such flag.
FlushFills(k, filled) ==
    IF k = "VideoEncoder" THEN {TRUE}
    ELSE IF k = "AudioEncoder" THEN {filled, TRUE} ELSE {filled}

\* The backend answers the flush step; its catch block does not return, so
\* the promise that flush() returned is fulfilled whatever the outcome.
FlushDone(i, outcome, fills) ==
    LET outputs == outcome \in {"ok1", "failLate"} IN
    /\ Awaiting(i, "flush", "run")
    /\ \/ /\ outcome \in {"ok0", "ok1"}
          /\ fills \in FlushFills(cls, metadataFilled)
          /\ prom' = Fulfil(prom, i)
          /\ metadataFilled' = fills
          /\ UNCHANGED <<_p, failed, fails>>
       \/ /\ \/ outcome = "fail"
             \/ outcome = "failLate" /\ IsEncoder(cls) /\ ~metadataFilled
          /\ fills = metadataFilled
          /\ BackendFails
          /\ prom' = Caught(prom, i)
          /\ _p' = Len(prom) + 1
          /\ failed' = "backend"
          /\ UNCHANGED metadataFilled
    /\ delivered' = (delivered \/ (outputs /\ IsEncoder(cls)))
    /\ ev' = {"resolve"} \cup (IF outputs THEN {"output"} ELSE {})
                         \cup (IF outputs /\ metadataFilled' THEN {"meta"} ELSE {})
    /\ UNCHANGED <<cls, input, result, pipelineVars, state, queueSize, libav, c, filt, pool, out, errorLog,
                   lastCall, calls, unsupported>>

\* this._p.then(() => { this._closeX(ex); }): what it throws rejects the promise.
CloseStep(i) ==
    LET r == _close(Here, prom[i].arg) IN
    /\ Ready(i, "close")
    /\ IF r.threw # "none"
       THEN /\ prom' = Reject(prom, i, r.threw)
            /\ UNCHANGED <<state, _p>>
       ELSE /\ state' = r.state
            /\ prom' = Fulfil(r.prom, i)
            /\ _p' = r.p
    /\ ev' = {}
    /\ UNCHANGED <<cls, input, result, pipelineVars, queueSize, libav, c, filt, pool, out, errorLog, failed,
                   lastCall, calls, unsupported, fails, metadataFilled, delivered>>

\* this._p.then(() => { this._error(exception); })
ErrorStep(i) ==
    /\ Ready(i, "error")
    /\ errorLog' = Append(errorLog, prom[i].arg)
    /\ prom' = Fulfil(prom, i)
    /\ ev' = {"error"}
    /\ UNCHANGED <<cls, input, result, pipelineVars, state, queueSize, _p, libav, c, filt, pool, out, failed,
                   lastCall, calls, unsupported, fails, metadataFilled, delivered>>

Steps == 1..Len(prom)

Next ==
    \/ \E k \in Codecs : configure(k)
    \/ \E s \in BOOLEAN : \E d \in BOOLEAN : code(s, d)
    \/ flush
    \/ reset
    \/ close
    \/ \E i \in Steps : Skip(i)
    \/ \E i \in Steps : FreeStart(i)
    \/ \E i \in Steps : \E r \in {"ok", "failFilter", "failCodec"} : FreeDone(i, r)
    \/ \E i \in Steps : ConfigureStart(i)
    \/ \E i \in Steps : \E ok \in BOOLEAN : ConfigureGet(i, ok)
    \/ \E i \in Steps : \E r \in {"ok", "failInit", "failPost"} : ConfigureInit(i, r)
    \/ \E i \in Steps : CodeStart(i)
    \/ \E i \in Steps :
          \E r \in {"ok0", "ok1", "failEarly", "fail", "failLate"} : CodeDone(i, r)
    \/ \E i \in Steps : FlushStart(i)
    \/ \E i \in Steps : \E r \in {"ok0", "ok1", "fail", "failLate"} :
          \E m \in BOOLEAN : FlushDone(i, r, m)
    \/ \E i \in Steps : CloseStep(i)
    \/ \E i \in Steps : ErrorStep(i)

Spec == Init /\ [][Next]_vars

\* The instance after new X(init), configure(config) with a supported codec,
\* and the configure step run to its end.
InitConfigured ==
    /\ cls \in Classes
    /\ state = "configured"
    /\ queueSize = 0
    /\ prom = <<>>
    /\ _p = 0
    /\ libav = TRUE
    /\ c = TRUE
    /\ filt = FALSE
    /\ pool = 0
    /\ out = 1
    /\ errorLog = <<>>
    /\ failed = "none"
    /\ ev = {}
    /\ lastCall = [op |-> "configure", threw |-> "none", detached |-> FALSE,
                   codec |-> "supported"]
    /\ calls = 0
    /\ fails = 0
    /\ unsupported = FALSE
    /\ metadataFilled = FALSE
    /\ delivered = FALSE
    /\ input = NoCall
    /\ result = NoCall
    /\ PipelineIdle

SpecConfigured == InitConfigured /\ [][Next]_vars

----------------------------------------------------------------------------
\* Properties.

Quiescent == \A i \in Steps : Settled(prom, i)
IsCall == calls' # calls
Accepted(op) == IsCall /\ lastCall'.op = op /\ lastCall'.threw = "none"

\* C1: the steps of an instance run one at a time in the order they were
\* enqueued: a promise of the chain has begun (is suspended at an await, or
\* settled) only if every promise created before it is settled.
FifoExecution ==
    \A i \in Steps :
        prom[i].st # "pending" => \A j \in 1..(i - 1) : Settled(prom, j)

\* A public method has just been called while a step is suspended at an
\* await, and what it enqueued waits behind the suspended step.
FifoWitness ==
    \E i \in Steps :
        /\ Suspended(prom, i)
        /\ "call" \in ev /\ lastCall.threw = "none"
        /\ \E j \in Steps : j > i /\ prom[j].st = "pending"

\* C2: an accepted decode/encode call adds exactly one to the counter, the
\* only other change of the counter is a decrement by one that comes with one
\* "dequeue" event, and no "dequeue" event comes without that decrement.
QueueSizeAccounting ==
    [][/\ Accepted("code") => queueSize' = queueSize + 1
       /\ (IsCall /\ ~Accepted("code")) => queueSize' = queueSize
       /\ ~IsCall => \/ queueSize' = queueSize /\ "dequeue" \notin ev'
                     \/ queueSize' + 1 = queueSize /\ "dequeue" \in ev']_vars

\* C3: once every promise of the chain is settled, the counter is back to 0.
CounterDrains == Quiescent => queueSize = 0

\* C4: the error callback is invoked at most once.
ErrorAtMostOnce == Len(errorLog) <= 1

Count(log, what) == Cardinality({k \in 1..Len(log) : log[k] = what})

\* C5: after the backend has failed in a decode, encode or flush step, once
\* the chain has run out the state is "closed" and the error callback has been
\* invoked exactly once with the failure of a step.
FailureClosesAndReports ==
    (failed = "backend" /\ Quiescent) =>
        (state = "closed" /\ Count(errorLog, "EncodingError") = 1)

\* C6: after a decode, encode or flush step has failed, once the chain has
\* run out the instance holds no codec context, no filter or rescaler and no
\* backend instance.
CleanupAfterFailure ==
    (failed # "none" /\ Quiescent) => (~libav /\ ~c /\ ~filt)

\* C7: once a decode, encode or flush step has failed, no later step invokes
\* the output callback.
NoOutputAfterFailure == [][failed # "none" => "output" \notin ev']_vars

\* C8: once state is "closed", no call and no step changes it.
ClosedIsTerminal == [][state = "closed" => state' = "closed"]_vars

\* configure() was called on a closed instance, and threw.
ClosedIsTerminalWitness ==
    /\ state = "closed"
    /\ lastCall.op = "configure"
    /\ lastCall.threw = "InvalidStateError"

\* C9: decode/encode/flush while state is not "configured", and
\* configure/reset while state is "closed", throw InvalidStateError and change
\* neither state nor the counter nor the chain (the input of encode being one
\* that is not detached).
IllegalCallsRejected ==
    [][(/\ IsCall
        /\ ~lastCall'.detached
        /\ \/ lastCall'.op \in {"code", "flush"} /\ state # "configured"
           \/ lastCall'.op \in {"configure", "reset"} /\ state = "closed")
       => /\ lastCall'.threw = "InvalidStateError"
          /\ UNCHANGED <<state, queueSize, prom, _p>>]_vars

JustReset == lastCall.op = "reset" /\ lastCall.threw = "none"
JustClosed == lastCall.op = "close" /\ lastCall.threw = "none"

\* C11: while no backend primitive has failed and no unsupported codec was
\* configured, the error callback has not been invoked, whatever reset() and
\* close() calls were made and whatever was pending at the time.
NoErrorWithoutFailure == (fails = 0 /\ ~unsupported) => errorLog = <<>>

\* reset() or close() was just accepted while a decode/encode step is
\* suspended at an await, with no failure and no unsupported codec so far.
AbortWhilePendingWitness ==
    /\ fails = 0 /\ ~unsupported
    /\ JustReset \/ JustClosed
    /\ "call" \in ev
    /\ \E i \in Steps : prom[i].kind = "code" /\ Suspended(prom, i)

FlushResolvesDrained ==
    [][("resolve" \in ev' /\ \A i \in 1..Len(prom') : prom'[i].kind # "code")
       => queueSize' = 0]_vars

\* C16: after reset(), close() or an internal close, every step already
\* enqueued runs: no promise of the chain is settled without running its step.
EveryStepRuns ==
    [][state # "configured"
       => ~\E i \in Steps : /\ prom[i].st = "pending"
                             /\ Rejected(prom, prom[i].par)
                             /\ prom'[i].st # "pending"]_vars

\* C17: the instance never has more than one backend instance handed out.
OneBackendInstance == out <= 1

\* C18: every backend instance handed out by get() and not given back to
\* free() is the one the codec instance holds in this._libav.
InstanceInOnePlace == out = (IF libav THEN 1 ELSE 0)

\* C19: when an encoder passes chunks to the output callback, they carry the
\* metadata record if and only if no chunk was delivered before in this
\* configuration epoch.
MetadataOnFirstChunkOnly ==
    [][(IsEncoder(cls) /\ "output" \in ev')
       => ("meta" \in ev' <=> ~delivered)]_vars

\* C20: encode() with a detached input throws TypeError and changes neither
\* state nor the counter nor the chain.
DetachedRejected ==
    [][(IsCall /\ lastCall'.op = "code" /\ lastCall'.detached)
       => /\ lastCall'.threw = "TypeError"
          /\ UNCHANGED <<state, queueSize, prom, _p>>]_vars

\* encode() was called with a detached input on a configured encoder.
DetachedWitness ==
    /\ state = "configured"
    /\ lastCall.op = "code" /\ lastCall.detached
    /\ lastCall.threw = "TypeError"

\* C21: when the step of a configure() with a recognized but unsupported codec
\* runs, whatever was called in between, it takes no backend instance, leaves
\* state "closed" and has queued the error callback with NotSupportedError.
UnsupportedCloses ==
    [][\A i \in Steps :
          (ConfigureStart(i) /\ prom[i].arg = "unsupported")
          => /\ state' = "closed"
             /\ out' = out /\ libav' = libav
             /\ "error" \notin ev'
             /\ \E j \in 1..Len(prom') :
                   /\ prom'[j].kind = "error"
                   /\ prom'[j].arg = "NotSupportedError"
                   /\ prom'[j].st = "pending"]_vars

\* C22: configure() with an unrecognized codec identifier throws TypeError
\* from the call, and changes neither state nor the counter nor the chain.
UnrecognizedThrows ==
    [][(IsCall /\ lastCall'.op = "configure" /\ lastCall'.codec = "unrecognized")
       => /\ lastCall'.threw = "TypeError"
          /\ UNCHANGED <<state, queueSize, prom, _p>>]_vars

\* C23: when a configure step ends in an error (the support check throws, no
\* backend instance can be made, or the backend fails to initialise the
\* codec), the error callback is called once and the instance is closed: state
\* is "closed", and the backend instance is released or its release is
\* queued.
ConfigureFailureCloses ==
    [][\A i \in Steps :
          (/\ prom[i].kind = "configure"
           /\ Ready(i, "configure") \/ Suspended(prom, i)
           /\ Settled(prom', i)
           /\ "error" \in ev')
          => /\ Len(errorLog') = Len(errorLog) + 1
             /\ state' = "closed"
             /\ \/ ~libav'
                \/ \E j \in 1..Len(prom') :
                      prom'[j].kind = "free" /\ prom'[j].st = "pending"]_vars

\* A decode/encode step begins to execute; a step whose parent was rejected
\* is never run and does not begin.
Begins(i) == Ready(i, "code") /\ prom'[i].st # "pending"

\* C36: the counter is decremented only in a transition in which a
\* decode/encode step ends, that is after the backend has finished the work
\* of the step, not when the step begins.
DecrementAfterWork ==
    [][queueSize' < queueSize
       => \E i \in Steps : prom[i].kind = "code" /\ Settled(prom', i)]_vars

\* C37: in AudioEncoder, VideoEncoder and AudioDecoder the counter, 0 at
\* construction, goes up by one with every accepted decode/encode call, down
\* by one whenever a decode/encode step begins to execute, and changes at no
\* other moment: it is the number of steps enqueued that have not begun, and
\* it is never negative.
CounterIsNotBegun ==
    [][cls # "VideoDecoder"
       => /\ queueSize' >= 0
          /\ Accepted("code") => queueSize' = queueSize + 1
          /\ (\E i \in Steps : Begins(i)) => queueSize' = queueSize - 1
          /\ (~Accepted("code") /\ ~\E i \in Steps : Begins(i))
                => queueSize' = queueSize]_vars

\* A step is suspended at an await of the backend while another accepted
\* decode/encode waits behind it: the counter is 1, not 2.
BegunNotCountedWitness ==
    /\ cls # "VideoDecoder"
    /\ queueSize = 1
    /\ \E i \in Steps : /\ Awaiting(i, "code", "run")
                        /\ \E j \in Steps : j > i /\ prom[j].kind = "code"
                                                  /\ prom[j].st = "pending"

----------------------------------------------------------------------------
\* Static methods, module functions and data objects.  They are studied one
\* call at a time: input holds the call and its arguments, result what it has
\* returned or thrown so far.  No codec instance takes part; of the instance
\* variables only the pool of idle backend instances is used.

instanceVars == <<cls, state, queueSize, prom, _p, libav, c, filt, errorLog, failed,
                  ev, lastCall, calls, fails, unsupported, metadataFilled, delivered,
                  pipelineVars>>

\* The call has been made and nothing of it has run yet.
Pending == [st |-> "called", value |-> "-"]
Returned(v) == [st |-> "returned", value |-> v]
Threw(what) == [st |-> "threw", value |-> what]
Resolved(v) == [st |-> "resolved", value |-> v]
RejectedWith(what) == [st |-> "rejected", value |-> what]

\* X.isConfigSupported(config).

\* Idle backend instances in the pool before the call.
MaxPool == 1

\* VideoDecoder.isConfigSupported only looks the codec up; the other classes
\* initialise and free a codec on a backend instance.
Probes(k) == k # "VideoDecoder"

\* const enc = libavs.encoder(config.codec, config); ... if (enc) { ... }
\* "TypeError": the lookup throws; "no": null, supported stays false; "yes":
\* supported without a probe; "probe": the body of if (enc) runs.
CheckSupport(k, codec) ==
    IF codec = "unrecognized" /\ ThrowsOnUnrecognized(k) THEN "TypeError"
    ELSE IF codec # "supported" THEN "no"
    ELSE IF Probes(k) THEN "probe" ELSE "yes"

ProbeOutcomes == {"ok", "failInit", "failFree"}

isConfigSupportedInputs ==
    [fn : {"isConfigSupported"}, cls : Classes, codec : Codecs]

ProbeStart ==
    /\ input.fn = "isConfigSupported"
    /\ result.st = "called"
    /\ LET s == CheckSupport(input.cls, input.codec) IN
       result' = CASE s = "TypeError" -> RejectedWith("TypeError")
                   [] s = "no" -> Resolved([supported |-> FALSE, probe |-> "none"])
                   [] s = "yes" -> Resolved([supported |-> TRUE, probe |-> "none"])
                   [] OTHER -> [st |-> "get", value |-> "-"]
    /\ UNCHANGED <<instanceVars, pool, out, input>>

\* const libav = await libavs.get();
ProbeGet(ok) ==
    /\ input.fn = "isConfigSupported"
    /\ result.st = "get"
    /\ IF ok
       THEN /\ pool' = IF pool > 0 THEN pool - 1 ELSE pool
            /\ out' = out + 1
            /\ result' = [st |-> "init", value |-> "-"]
       ELSE /\ pool = 0
            /\ result' = RejectedWith("BackendError")
            /\ UNCHANGED <<pool, out>>
    /\ UNCHANGED <<instanceVars, input>>

\* The same without the try/catch around the probe.
ProbeSettlesMutant(outcome) ==
    IF outcome = "ok"
    THEN [st |-> "free", value |-> [supported |-> TRUE, probe |-> outcome]]
    ELSE RejectedWith("BackendError")

\* try { await libav.ff_init_encoder(...); await libav.ff_free_encoder(...);
\*       supported = true; } catch (ex) {}
ProbeSettles(outcome) ==
    [st |-> "free", value |-> [supported |-> (outcome = "ok"), probe |-> outcome]]

ProbeInit(outcome) ==
    /\ input.fn = "isConfigSupported"
    /\ result.st = "init"
    /\ result' = ProbeSettles(outcome)
    /\ UNCHANGED <<instanceVars, pool, out, input>>

\* await libavs.free(libav); return {supported, config};
ProbeFree ==
    /\ input.fn = "isConfigSupported"
    /\ result.st = "free"
    /\ pool' = pool + 1
    /\ out' = out - 1
    /\ result' = Resolved(result.value)
    /\ UNCHANGED <<instanceVars, input>>

\* What isConfigSupported settles with when the backend answers the probe
\* with outcome, or cannot be loaded ("failGet").
isConfigSupported(k, codec, outcome) ==
    LET s == CheckSupport(k, codec) IN
    CASE s = "TypeError" -> RejectedWith("TypeError")
      [] s = "no" -> Resolved([supported |-> FALSE, probe |-> "none"])
      [] s = "yes" -> Resolved([supported |-> TRUE, probe |-> "none"])
      [] OTHER -> IF outcome = "failGet" THEN RejectedWith("BackendError")
                  ELSE Resolved([supported |-> (outcome = "ok"), probe |-> outcome])

\* getAudioDecoder / getVideoDecoder / getAudioEncoder / getVideoEncoder.
\* host: the class is not defined in globalThis, or its isConfigSupported
\* resolves with supported true or false, or throws.
Hosts == {"absent", "supports", "refuses", "throws"}

Environment(who) == [codec |-> who, chunk |-> who, data |-> who]

getXYInputs ==
    [fn : {"getXY"}, cls : Classes, host : Hosts, codec : Codecs,
     probe : ProbeOutcomes \cup {"failGet"}]

getXY(k, host, codec, outcome) ==
    IF host = "supports"
    THEN Resolved(Environment("host"))
    ELSE LET r == isConfigSupported(k, codec, outcome) IN
         IF r.st = "rejected" THEN r
         ELSE IF r.value.supported THEN Resolved(Environment("polyfill"))
         ELSE RejectedWith("UnsupportedException")

GetEnvironment ==
    /\ input.fn = "getXY"
    /\ result.st = "called"
    /\ result' = getXY(input.cls, input.host, input.codec, input.probe)
    /\ UNCHANGED <<instanceVars, pool, out, input>>

\* AudioData.

MaxFrames == 2      \* largest numberOfFrames
MaxChannels == 2    \* largest numberOfChannels

AudioFormats == {"s16", "f32", "s16-planar", "f32-planar"}

bytesPerSample(format) == IF format \in {"s16", "s16-planar"} THEN 2 ELSE 4

isInterleaved(format) == format \in {"s16", "f32"}

\* this._data of a closed object.
Null == [null |-> TRUE, elements |-> <<>>]

\* Elements a .. b-1 (counted from 0) of a typed array, as subarray() and
\* slice() give them.
Sub(s, a, b) ==
    LET e == IF b < Len(s) THEN b ELSE Len(s) IN
    IF a >= e THEN <<>> ELSE SubSeq(s, a + 1, e)

\* s[i], the index counted from 0; 0 stands for undefined.
Pick(s, i) == IF i + 1 \in DOMAIN s THEN s[i + 1] ELSE 0

_checkValidAudioDataInit(init) ==
    IF init.sampleRate <= 0 \/ init.numberOfFrames <= 0 \/ init.numberOfChannels <= 0
    THEN "TypeError"
    ELSE IF Len(init.data) * bytesPerSample(init.format)
            < bytesPerSample(init.format) * (init.numberOfFrames * init.numberOfChannels)
    THEN "TypeError"
    ELSE "none"

\* new AudioData(init) without init.transfer: the samples are copied.
NewAudioData(init) ==
    IF _checkValidAudioDataInit(init) # "none"
    THEN Threw(_checkValidAudioDataInit(init))
    ELSE Returned([format |-> init.format,
                   sampleRate |-> init.sampleRate,
                   numberOfFrames |-> init.numberOfFrames,
                   numberOfChannels |-> init.numberOfChannels,
                   timestamp |-> init.timestamp,
                   duration |-> (init.numberOfFrames * 1000000) \div init.sampleRate,
                   _data |-> [null |-> FALSE, elements |-> Sub(init.data, 0, Len(init.data))]])

SampleRates == {48000}
AudioTimestamps == {-1000, 1500}

AudioDataInits ==
    {[format |-> f, sampleRate |-> r, numberOfFrames |-> n, numberOfChannels |-> k,
      timestamp |-> t, data |-> [s \in 1..(n * k) |-> s]] :
        f \in AudioFormats, r \in SampleRates, n \in 1..MaxFrames,
        k \in 1..MaxChannels, t \in AudioTimestamps}

AudioDatas == {NewAudioData(init).value : init \in AudioDataInits}

\* AudioDataCopyToOptions; format "none" and hasFrameCount FALSE: not given.
AudioDataCopyToOptions ==
    {o \in [format : {"none"} \cup AudioFormats, planeIndex : 0..(MaxChannels - 1),
            frameOffset : 0..MaxFrames, hasFrameCount : BOOLEAN,
            frameCount : 0..(MaxFrames + 1)] :
        o.hasFrameCount \/ o.frameCount = 0}

NoOptions == [format |-> "none", planeIndex |-> 0, frameOffset |-> 0,
              hasFrameCount |-> FALSE, frameCount |-> 0]

\* byteLength of the destination of copyTo: empty, or room for every copy.
AudioByteLengths == {0, 4 * MaxFrames * MaxChannels}

AudioDataInputs ==
    [fn : {"AudioData.allocationSize"}, this : AudioDatas,
     options : AudioDataCopyToOptions, byteLength : {0}]
    \cup [fn : {"AudioData.copyTo"}, this : AudioDatas,
          options : AudioDataCopyToOptions, byteLength : AudioByteLengths]
    \cup [fn : {"AudioData.clone"}, this : AudioDatas,
          options : {NoOptions}, byteLength : {0}]

\* if (options.frameCount >= copyFrameCount) throw new RangeError(...)
FrameCountGuard(frameCount, copyFrameCount) == frameCount >= copyFrameCount

_computeCopyElementCount(this, options) ==
    LET destFormat == IF options.format # "none" THEN options.format ELSE this.format
        frameCount == this.numberOfFrames
        copyFrameCount == frameCount - options.frameOffset
        elements == IF options.hasFrameCount THEN options.frameCount ELSE copyFrameCount
    IN
    IF isInterleaved(destFormat) /\ options.planeIndex > 0 THEN Threw("RangeError")
    ELSE IF ~isInterleaved(destFormat) /\ options.planeIndex >= this.numberOfChannels
    THEN Threw("RangeError")
    ELSE IF this.format # destFormat /\ destFormat # "f32-planar"
    THEN Threw("NotSupportedError")
    ELSE IF options.frameOffset >= frameCount THEN Threw("RangeError")
    ELSE IF options.hasFrameCount /\ FrameCountGuard(options.frameCount, copyFrameCount)
    THEN Threw("RangeError")
    ELSE Returned(IF isInterleaved(destFormat)
                  THEN elements * this.numberOfChannels ELSE elements)

AudioData_allocationSize(this, options) ==
    IF this._data.null THEN Threw("InvalidStateError")
    ELSE LET n == _computeCopyElementCount(this, options)
             destFormat == IF options.format # "none" THEN options.format ELSE this.format
         IN IF n.st = "threw" THEN n
            ELSE Returned(bytesPerSample(destFormat) * n.value)

\* The samples copyTo writes to the destination; converted ones are named by
\* the sample they are computed from.
AudioData_copyTo(this, byteLength, options) ==
    IF this._data.null THEN Threw("InvalidStateError")
    ELSE
    LET n == _computeCopyElementCount(this, options)
        destFormat == IF options.format # "none" THEN options.format ELSE this.format
        resource == this._data.elements
        planeFrames == Sub(resource, options.planeIndex * this.numberOfFrames,
                           Len(resource))
        frameOffset == options.frameOffset
        numberOfChannels == this.numberOfChannels
    IN
    IF n.st = "threw" THEN n
    ELSE IF bytesPerSample(destFormat) * n.value > byteLength THEN Threw("RangeError")
    ELSE IF this.format = destFormat
    THEN Returned([converted |-> FALSE,
                   copied |-> IF isInterleaved(destFormat)
                              THEN Sub(planeFrames, frameOffset * numberOfChannels,
                                       frameOffset * numberOfChannels + n.value)
                              ELSE Sub(planeFrames, frameOffset, frameOffset + n.value)])
    ELSE Returned([converted |-> TRUE,
                   copied |-> IF isInterleaved(this.format)
                              THEN [o \in 1..n.value |->
                                      Pick(planeFrames,
                                           options.planeIndex
                                           + frameOffset * numberOfChannels
                                           + (o - 1) * numberOfChannels)]
                              ELSE [o \in 1..n.value |->
                                      Pick(planeFrames, frameOffset + (o - 1))]])

AudioData_clone(this) ==
    IF this._data.null THEN Threw("InvalidStateError")
    ELSE NewAudioData([format |-> this.format,
                       sampleRate |-> this.sampleRate,
                       numberOfFrames |-> this.numberOfFrames,
                       numberOfChannels |-> this.numberOfChannels,
                       timestamp |-> this.timestamp,
                       data |-> this._data.elements])

\* close() of the AudioData or VideoFrame the call is about to be made on.
DataClose ==
    /\ input.fn \in {"AudioData.allocationSize", "AudioData.copyTo", "AudioData.clone",
                     "VideoFrame.allocationSize", "VideoFrame.copyTo",
                     "VideoFrame.clone"}
    /\ result.st = "called"
    /\ ~input.this._data.null
    /\ input' = [input EXCEPT !.this._data = Null]
    /\ UNCHANGED <<instanceVars, pool, out, result>>

AudioDataAllocationSize ==
    /\ input.fn = "AudioData.allocationSize"
    /\ result.st = "called"
    /\ result' = AudioData_allocationSize(input.this, input.options)
    /\ UNCHANGED <<instanceVars, pool, out, input>>

AudioDataCopyTo ==
    /\ input.fn = "AudioData.copyTo"
    /\ result.st = "called"
    /\ result' = AudioData_copyTo(input.this, input.byteLength, input.options)
    /\ UNCHANGED <<instanceVars, pool, out, input>>

AudioDataClone ==
    /\ input.fn = "AudioData.clone"
    /\ result.st = "called"
    /\ result' = AudioData_clone(input.this)
    /\ UNCHANGED <<instanceVars, pool, out, input>>

\* VideoFrame.

MaxDim == 3         \* largest coded width and height

VideoFormats == {"I420", "I422", "I444", "NV12", "RGBA"}

numPlanes(format) ==
    CASE format \in {"I420", "I422", "I444"} -> 3
      [] format = "NV12" -> 2
      [] OTHER -> 1

sampleBytes(format, planeIndex) ==
    CASE format = "RGBA" -> 4
      [] format = "NV12" /\ planeIndex = 1 -> 2
      [] OTHER -> 1

horizontalSubSamplingFactor(format, planeIndex) ==
    IF planeIndex = 0 \/ planeIndex = 3 THEN 1
    ELSE IF format \in {"I420", "I422", "NV12"} THEN 2 ELSE 1

verticalSubSamplingFactor(format, planeIndex) ==
    IF planeIndex = 0 \/ planeIndex = 3 THEN 1
    ELSE IF format \in {"I420", "NV12"} THEN 2 ELSE 1

\* A DOMRect; given FALSE: the member is not present in the dictionary.
Rect(x, y, width, height) ==
    [given |-> TRUE, x |-> x, y |-> y, width |-> width, height |-> height]
NoRect == [given |-> FALSE, x |-> 0, y |-> 0, width |-> 0, height |-> 0]

\* init.displayWidth and init.displayHeight; each may be absent.
Display(width, height) ==
    [hasWidth |-> TRUE, width |-> width, hasHeight |-> TRUE, height |-> height]
NoDisplay == [hasWidth |-> FALSE, width |-> 0, hasHeight |-> FALSE, height |-> 0]
OnlyWidth(width) == [NoDisplay EXCEPT !.hasWidth = TRUE, !.width = width]
OnlyHeight(height) == [NoDisplay EXCEPT !.hasHeight = TRUE, !.height = height]

\* Whether an optional number is truthy: given and not 0.
Truthy(has, n) == has /\ n # 0

\* The same with no alignment check.
_verifyRectOffsetAlignmentMutant(format, rect) == TRUE

_verifyRectOffsetAlignment(format, rect) ==
    \A planeIndex \in 0..(numPlanes(format) - 1) :
        /\ rect.x % horizontalSubSamplingFactor(format, planeIndex) = 0
        /\ rect.y % verticalSubSamplingFactor(format, planeIndex) = 0

\* format: the value of this.format when the algorithm runs.
_parseVisibleRect(format, codedWidth, codedHeight, defaultRect, overrideRect) ==
    LET sourceRect == IF overrideRect.given THEN overrideRect ELSE defaultRect IN
    IF overrideRect.given /\ (overrideRect.width = 0 \/ overrideRect.height = 0)
    THEN Threw("TypeError")
    ELSE IF overrideRect.given /\ overrideRect.x + overrideRect.width > codedWidth
    THEN Threw("TypeError")
    ELSE IF overrideRect.given /\ overrideRect.y + overrideRect.height > codedHeight
    THEN Threw("TypeError")
    ELSE IF ~_verifyRectOffsetAlignment(format, sourceRect) THEN Threw("TypeError")
    ELSE Returned(sourceRect)

\* The loop of _computeLayoutAndAllocationSize from planeIndex on.  layout <<>>:
\* no layout given.  acc: what the loop has computed so far.  (Plane sizes
\* stay far below 2^32, the "Plane too large" check never fires.)
RECURSIVE ComputePlanes(_, _, _, _, _)
ComputePlanes(format, parsedRect, layout, planeIndex, acc) ==
    IF acc.threw # "none" \/ planeIndex >= numPlanes(format) THEN acc
    ELSE
    LET sampleBytes_ == sampleBytes(format, planeIndex)
        sampleWidth == horizontalSubSamplingFactor(format, planeIndex)
        sampleHeight == verticalSubSamplingFactor(format, planeIndex)
        sourceHeight == (parsedRect.height + sampleHeight - 1) \div sampleHeight
        sourceWidthBytes == (parsedRect.width * sampleBytes_) \div sampleWidth
        given == layout # <<>>
        destinationOffset ==
            IF given THEN layout[planeIndex + 1].offset ELSE acc.allocationSize
        destinationStride ==
            IF given THEN layout[planeIndex + 1].stride ELSE sourceWidthBytes
        planeEnd == destinationStride * sourceHeight + destinationOffset
    IN
    IF given /\ destinationStride < sourceWidthBytes
    THEN [acc EXCEPT !.threw = "TypeError"]
    ELSE IF \E e \in 1..planeIndex :
               ~(planeEnd <= acc.offsets[e] \/ acc.ends[e] <= destinationOffset)
    THEN [acc EXCEPT !.threw = "TypeError"]
    ELSE ComputePlanes(format, parsedRect, layout, planeIndex + 1,
             [threw |-> "none",
              allocationSize |-> IF planeEnd > acc.allocationSize
                                 THEN planeEnd ELSE acc.allocationSize,
              offsets |-> Append(acc.offsets, destinationOffset),
              strides |-> Append(acc.strides, destinationStride),
              ends |-> Append(acc.ends, planeEnd)])

_computeLayoutAndAllocationSize(format, parsedRect, layout) ==
    LET start == [threw |-> "none", allocationSize |-> 0, offsets |-> <<>>,
                  strides |-> <<>>, ends |-> <<>>]
    IN IF layout # <<>> /\ Len(layout) # numPlanes(format)
       THEN [start EXCEPT !.threw = "TypeError"]
       ELSE ComputePlanes(format, parsedRect, layout, 0, start)

_checkValidVideoFrameBufferInit(init) ==
    IF init.codedWidth = 0 \/ init.codedHeight = 0 THEN "TypeError"
    ELSE IF ~init.visibleRect.given THEN "none"
    ELSE IF init.visibleRect.y + init.visibleRect.height > init.codedHeight
    THEN "TypeError"
    ELSE IF init.visibleRect.x + init.visibleRect.width > init.codedWidth
    THEN "TypeError"
    ELSE LET d == init.display
             displayWidth == Truthy(d.hasWidth, d.width)
             displayHeight == Truthy(d.hasHeight, d.height)
         IN IF \/ displayWidth /\ ~displayHeight
               \/ ~displayWidth /\ ~displayHeight
               \/ (d.hasWidth /\ d.width = 0) \/ (d.hasHeight /\ d.height = 0)
            THEN "TypeError"
            ELSE "none"

\* The tightly packed layout the constructor makes when init.layout is absent.
RECURSIVE DefaultLayout(_, _, _, _, _)
DefaultLayout(format, codedWidth, codedHeight, i, offset) ==
    IF i >= numPlanes(format) THEN <<>>
    ELSE LET stride == codedWidth \div horizontalSubSamplingFactor(format, i)
             rows == codedHeight \div verticalSubSamplingFactor(format, i)
         IN <<[offset |-> offset, stride |-> stride]>>
            \o DefaultLayout(format, codedWidth, codedHeight, i + 1,
                             offset + stride * rows)

Least(S) == CHOOSE x \in S : \A y \in S : x <= y
Greatest(S) == CHOOSE x \in S : \A y \in S : x >= y

\* The field initialiser of the class: format: VideoPixelFormat = "I420".
InitialFormat == "I420"

\* _constructBuffer(data, init); transfer: init.transfer holds the buffer of
\* data.  this.format still has its initial value when the visible rectangle
\* is parsed, and is assigned before the layout is computed.
_constructBuffer(data, init, transfer) ==
    LET defaultRect == Rect(0, 0, init.codedWidth, init.codedHeight)
        parsedRect == _parseVisibleRect(InitialFormat, init.codedWidth, init.codedHeight,
                                        defaultRect, init.visibleRect)
        combinedLayout ==
            _computeLayoutAndAllocationSize(init.format, parsedRect.value, init.layout)
        layout == IF init.layout # <<>> THEN init.layout
                  ELSE DefaultLayout(init.format, init.codedWidth, init.codedHeight, 0, 0)
        planes == 1..numPlanes(init.format)
        lo == Least({layout[i].offset : i \in planes})
        hi == Greatest({0} \cup
                  {layout[i].offset
                   + layout[i].stride
                     * (init.codedHeight \div verticalSubSamplingFactor(init.format, i - 1)) :
                   i \in planes})
        visibleRect == IF init.visibleRect.given THEN init.visibleRect ELSE defaultRect
    IN
    IF _checkValidVideoFrameBufferInit(init) # "none"
    THEN Threw(_checkValidVideoFrameBufferInit(init))
    ELSE IF parsedRect.st = "threw" THEN parsedRect
    ELSE IF combinedLayout.threw # "none" THEN Threw(combinedLayout.threw)
    ELSE IF Len(data) < combinedLayout.allocationSize THEN Threw("TypeError")
    ELSE Returned(
        [format |-> init.format,
         codedWidth |-> init.codedWidth,
         codedHeight |-> init.codedHeight,
         visibleRect |-> visibleRect,
         displayWidth |-> IF init.display.hasWidth THEN init.display.width
                          ELSE visibleRect.width,
         displayHeight |-> IF init.display.hasHeight THEN init.display.height
                           ELSE visibleRect.height,
         timestamp |-> init.timestamp,
         duration |-> init.duration,
         _layout |-> IF transfer THEN layout
                     ELSE [i \in planes |-> [offset |-> layout[i].offset - lo,
                                             stride |-> layout[i].stride]],
         _data |-> [null |-> FALSE,
                    elements |-> IF transfer THEN data ELSE Sub(data, lo, hi)]])

\* A buffer of n bytes, each byte named by its position.
Buffer(n) == [i \in 1..n |-> i]

\* byteLength of the data given to the constructor and of the destination of
\* copyTo: empty, or room for every frame.
VideoByteLengths == {0, 4 * MaxDim * MaxDim}

Rects ==
    {Rect(x, y, w, h) : x \in 0..(MaxDim - 1), y \in 0..(MaxDim - 1),
                        w \in 0..MaxDim, h \in 0..MaxDim}

Displays == {NoDisplay, Display(MaxDim, 1), Display(0, 1), Display(1, 0),
             OnlyWidth(MaxDim), OnlyHeight(MaxDim)}
VideoTimestamps == {1500}
Durations == {40000}

VideoFrameBufferInits ==
    [format : VideoFormats, codedWidth : 0..MaxDim, codedHeight : 0..MaxDim,
     visibleRect : {NoRect} \cup Rects, display : Displays,
     timestamp : VideoTimestamps, duration : Durations, layout : {<<>>}]

\* The frames new VideoFrame(data, init) makes from a buffer that is large
\* enough.
VideoFrames ==
    {_constructBuffer(Buffer(4 * MaxDim * MaxDim), init, FALSE).value :
        init \in {i \in VideoFrameBufferInits :
                    _constructBuffer(Buffer(4 * MaxDim * MaxDim), i, FALSE).st
                    = "returned"}}

VideoFrameInputs ==
    [fn : {"VideoFrame"}, init : VideoFrameBufferInits, byteLength : VideoByteLengths]
    \cup [fn : {"VideoFrame.allocationSize", "VideoFrame.clone"}, this : VideoFrames,
          byteLength : {0}]
    \cup [fn : {"VideoFrame.copyTo"}, this : VideoFrames, byteLength : VideoByteLengths]

\* _parseVideoFrameCopyToOptions with options = {}.
_parseVideoFrameCopyToOptions(this) ==
    LET parsedRect == _parseVisibleRect(this.format, this.codedWidth, this.codedHeight,
                                        this.visibleRect, NoRect)
    IN IF parsedRect.st = "threw"
       THEN [threw |-> parsedRect.value, allocationSize |-> 0, offsets |-> <<>>,
             strides |-> <<>>, ends |-> <<>>]
       ELSE _computeLayoutAndAllocationSize(this.format, parsedRect.value, <<>>)

VideoFrame_allocationSize(this) ==
    IF this._data.null THEN Threw("InvalidStateError")
    ELSE LET combinedLayout == _parseVideoFrameCopyToOptions(this) IN
         IF combinedLayout.threw # "none" THEN Threw(combinedLayout.threw)
         ELSE Returned(combinedLayout.allocationSize)

\* The byte of this._data that copyTo writes at position d (counted from 0) of
\* the destination, 0 if it writes none there.
CopiedByte(this, combinedLayout, d) ==
    LET P == {p \in 1..Len(combinedLayout.offsets) :
                 /\ combinedLayout.offsets[p] <= d
                 /\ d < combinedLayout.ends[p]}
    IN IF P = {} THEN 0
       ELSE LET p == Greatest(P)
                sampleWidth == horizontalSubSamplingFactor(this.format, p - 1)
                sampleHeight == verticalSubSamplingFactor(this.format, p - 1)
                sourceTop == (this.visibleRect.y + sampleHeight - 1) \div sampleHeight
                sourceLeftBytes ==
                    (this.visibleRect.x * sampleBytes(this.format, p - 1)) \div sampleWidth
                sourceStride == this._layout[p].stride
                row == (d - combinedLayout.offsets[p]) \div combinedLayout.strides[p]
                col == (d - combinedLayout.offsets[p]) % combinedLayout.strides[p]
            IN Pick(this._data.elements,
                    (sourceTop + row) * sourceStride + sourceLeftBytes + col)

\* async copyTo(destination) with options = {}.
VideoFrame_copyTo(this, byteLength) ==
    IF this._data.null THEN RejectedWith("InvalidStateError")
    ELSE LET combinedLayout == _parseVideoFrameCopyToOptions(this) IN
         IF combinedLayout.threw # "none" THEN RejectedWith(combinedLayout.threw)
         ELSE IF byteLength < combinedLayout.allocationSize
         THEN RejectedWith("TypeError")
         ELSE Resolved([planeLayouts |->
                            [p \in 1..Len(combinedLayout.offsets) |->
                                [offset |-> combinedLayout.offsets[p],
                                 stride |-> combinedLayout.strides[p]]],
                        copied |->
                            [d \in 1..combinedLayout.allocationSize |->
                                CopiedByte(this, combinedLayout, d - 1)]])

\* clone() reads this._data.buffer before anything else, and gives the
\* constructor neither visibleRect nor displayWidth / displayHeight.
VideoFrame_clone(this) ==
    IF this._data.null THEN Threw("TypeError")
    ELSE _constructBuffer(this._data.elements,
                          [format |-> this.format,
                           codedWidth |-> this.codedWidth,
                           codedHeight |-> this.codedHeight,
                           visibleRect |-> NoRect,
                           display |-> NoDisplay,
                           timestamp |-> this.timestamp,
                           duration |-> this.duration,
                           layout |-> this._layout],
                          TRUE)

VideoFrameNew ==
    /\ input.fn = "VideoFrame"
    /\ result.st = "called"
    /\ result' = _constructBuffer(Buffer(input.byteLength), input.init, FALSE)
    /\ UNCHANGED <<instanceVars, pool, out, input>>

VideoFrameAllocationSize ==
    /\ input.fn = "VideoFrame.allocationSize"
    /\ result.st = "called"
    /\ result' = VideoFrame_allocationSize(input.this)
    /\ UNCHANGED <<instanceVars, pool, out, input>>

VideoFrameCopyTo ==
    /\ input.fn = "VideoFrame.copyTo"
    /\ result.st = "called"
    /\ result' = VideoFrame_copyTo(input.this, input.byteLength)
    /\ UNCHANGED <<instanceVars, pool, out, input>>

VideoFrameClone ==
    /\ input.fn = "VideoFrame.clone"
    /\ result.st = "called"
    /\ result' = VideoFrame_clone(input.this)
    /\ UNCHANGED <<instanceVars, pool, out, input>>

\* The timestamp of the chunk VideoEncoder makes from a frame.

\* f64toi64 and i64tof64 split a number into two words and join them again;
\* the words of the model are 16 bits wide instead of 32.
Word == 65536

\* [~~val, Math.floor(val / 0x100000000)]
f64toi64(val) ==
    LET low == val % Word IN
    [pts |-> IF low >= Word \div 2 THEN low - Word ELSE low, ptshi |-> val \div Word]

i64tof64(lo, hi) == hi * Word + lo + (IF lo < 0 THEN Word ELSE 0)

\* Frame timestamps in microseconds: up to MaxStamp above 0 and above the
\* milliseconds at which the low word changes sign and wraps.
MaxStamp == 2500
FrameTimestamps ==
    {base * 1000 + d : base \in {0, Word \div 2 - 1, Word - 1}, d \in 0..MaxStamp}

EncodeInputs == [fn : {"encode"}, timestamp : FrameTimestamps]

\* encode: ptsFull = Math.floor(frameClone.timestamp / 1000), split into
\* pts and ptshi.  The time base of the codec is 1/1000 and a packet carries
\* the pts of its frame.  _outputEncodedVideoChunks joins the words and
\* multiplies by 1000.
ChunkTimestamp(timestamp) ==
    LET ptsFull == timestamp \div 1000
        packet == f64toi64(ptsFull)
    IN i64tof64(packet.pts, packet.ptshi) * 1000

EncodeTimestamp ==
    /\ input.fn = "encode"
    /\ result.st = "called"
    /\ result' = Returned(ChunkTimestamp(input.timestamp))
    /\ UNCHANGED <<instanceVars, pool, out, input>>

\* encode(data) of a configured AudioEncoder or VideoEncoder, and the frame its
\* step hands to the backend.

EncodeCallInputs ==
    [fn : {"AudioEncoder.encode"}, data : AudioDatas]
    \cup [fn : {"VideoEncoder.encode"}, data : VideoFrames]

\* close() of the AudioData or VideoFrame that is given to encode(), before
\* the call or between the call and the step.
ArgumentClose ==
    /\ input.fn \in {"AudioEncoder.encode", "VideoEncoder.encode"}
    /\ result.st \in {"called", "queued"}
    /\ ~input.data._data.null
    /\ input' = [input EXCEPT !.data._data = Null]
    /\ UNCHANGED <<instanceVars, pool, out, result>>

\* encode() up to this._p.then(...): the detached check, the clone.  What
\* clone() throws leaves encode().  The queued step holds dataClone; data is
\* the argument as it was at the call.
EncodeCall ==
    LET dataClone == IF input.fn = "AudioEncoder.encode"
                     THEN AudioData_clone(input.data)
                     ELSE VideoFrame_clone(input.data)
    IN
    /\ input.fn \in {"AudioEncoder.encode", "VideoEncoder.encode"}
    /\ result.st = "called"
    /\ result' = IF DetachedGuard(input.data._data.null) THEN Threw("TypeError")
                 ELSE IF dataClone.st = "threw" THEN dataClone
                 ELSE [st |-> "queued",
                       value |-> [dataClone |-> dataClone.value, data |-> input.data]]
    /\ UNCHANGED <<instanceVars, pool, out, input>>

\* const channel_layout = (cc === 1) ? 4 : ((1<<cc)-1);
ChannelLayout(cc) == IF cc = 1 THEN 4 ELSE 2 ^ cc - 1

\* The frame the AudioEncoder step makes of an AudioData: planar samples are
\* split into one array for each channel.
AudioFrame(dataClone) ==
    LET raw == dataClone._data.elements
        nb_samples == dataClone.numberOfFrames
        p == f64toi64(dataClone.timestamp \div 1000)
    IN [data |-> IF ~isInterleaved(dataClone.format)
                 THEN [i \in 1..dataClone.numberOfChannels |->
                          Sub(raw, (i - 1) * nb_samples, i * nb_samples)]
                 ELSE raw,
        format |-> dataClone.format,
        pts |-> p.pts,
        ptshi |-> p.ptshi,
        channel_layout |-> ChannelLayout(dataClone.numberOfChannels),
        sample_rate |-> dataClone.sampleRate]

\* The frame the VideoEncoder step makes of a VideoFrame.  left, right, top
\* and bottom of a DOMRect with non-negative sizes are x, x + width, y and
\* y + height.
VideoEncoderFrame(frameClone) ==
    LET p == f64toi64(frameClone.timestamp \div 1000) IN
    [data |-> frameClone._data.elements,
     layout |-> frameClone._layout,
     format |-> frameClone.format,
     pts |-> p.pts,
     ptshi |-> p.ptshi,
     width |-> frameClone.codedWidth,
     height |-> frameClone.codedHeight,
     crop |-> [left |-> frameClone.visibleRect.x,
               right |-> frameClone.visibleRect.x + frameClone.visibleRect.width,
               top |-> frameClone.visibleRect.y,
               bottom |-> frameClone.visibleRect.y + frameClone.visibleRect.height]]

\* The queued step runs and builds the frame out of dataClone.
EncodeFrame ==
    /\ input.fn \in {"AudioEncoder.encode", "VideoEncoder.encode"}
    /\ result.st = "queued"
    /\ result' = [st |-> "encoded",
                  value |-> [frame |-> IF input.fn = "AudioEncoder.encode"
                                       THEN AudioFrame(result.value.dataClone)
                                       ELSE VideoEncoderFrame(result.value.dataClone),
                             data |-> result.value.data]]
    /\ UNCHANGED <<instanceVars, pool, out, input>>

\* Every call under study, with no codec instance and at most MaxPool idle
\* backend instances.
InitApi ==
    /\ cls = "AudioEncoder"
    /\ state = "unconfigured"
    /\ queueSize = 0
    /\ prom = <<>>
    /\ _p = 0
    /\ libav = FALSE
    /\ c = FALSE
    /\ filt = FALSE
    /\ pool \in 0..MaxPool
    /\ out = 0
    /\ errorLog = <<>>
    /\ failed = "none"
    /\ ev = {}
    /\ lastCall = [op |-> "new", threw |-> "none", detached |-> FALSE, codec |-> "-"]
    /\ calls = 0
    /\ fails = 0
    /\ unsupported = FALSE
    /\ metadataFilled = FALSE
    /\ delivered = FALSE
    /\ input \in isConfigSupportedInputs \cup getXYInputs \cup AudioDataInputs
                 \cup VideoFrameInputs \cup EncodeInputs \cup EncodeCallInputs
    /\ result = Pending
    /\ PipelineIdle

NextApi ==
    \/ ProbeStart
    \/ \E ok \in BOOLEAN : ProbeGet(ok)
    \/ \E r \in ProbeOutcomes : ProbeInit(r)
    \/ ProbeFree
    \/ GetEnvironment
    \/ DataClose
    \/ AudioDataAllocationSize
    \/ AudioDataCopyTo
    \/ AudioDataClone
    \/ VideoFrameNew
    \/ VideoFrameAllocationSize
    \/ VideoFrameCopyTo
    \/ VideoFrameClone
    \/ EncodeTimestamp
    \/ ArgumentClose
    \/ EncodeCall
    \/ EncodeFrame

SpecApi == InitApi /\ [][NextApi]_vars

\* C24: isConfigSupported() never rejects while it holds a backend instance:
\* when ff_init_* or ff_free_* fails it resolves with supported = false, and
\* once it has resolved after a probe, failed or not, the instance is back in
\* the pool.
ProbeFailureUnsupported ==
    input.fn = "isConfigSupported"
    => /\ result.st = "rejected" => out = 0
       /\ result.st = "resolved"
          => /\ out = 0
             /\ result.value.probe # "none" => pool >= 1
             /\ result.value.probe \in {"failInit", "failFree"}
                => ~result.value.supported

\* ff_init_encoder failed on an instance made for the probe: the call has
\* resolved with supported = false and the instance is in the pool.
ProbeFailedWitness ==
    /\ input.fn = "isConfigSupported"
    /\ result.st = "resolved"
    /\ result.value.probe = "failInit"
    /\ ~result.value.supported
    /\ pool = 1 /\ out = 0

\* The polyfill's isConfigSupported resolves with supported = true.
PolyfillSupports ==
    input.codec = "supported" /\ (Probes(input.cls) => input.probe = "ok")

\* C25: getXY(config) resolves to the host's three classes when the host class
\* exists and reports support, otherwise to the polyfill's three classes when
\* the polyfill reports support, otherwise it rejects with
\* UnsupportedException.
EnvironmentSelection ==
    (input.fn = "getXY" /\ result.st # "called")
    => IF input.host = "supports"
       THEN result.st = "resolved" /\ result.value = Environment("host")
       ELSE IF PolyfillSupports
       THEN result.st = "resolved" /\ result.value = Environment("polyfill")
       ELSE result.st = "rejected" /\ result.value = "UnsupportedException"

\* C26: allocationSize, copyTo and clone of a closed AudioData or VideoFrame
\* fail with InvalidStateError.
ClosedRejects ==
    (/\ input.fn \in {"AudioData.allocationSize", "AudioData.copyTo",
                      "AudioData.clone", "VideoFrame.allocationSize",
                      "VideoFrame.copyTo", "VideoFrame.clone"}
     /\ result.st # "called"
     /\ input.this._data.null)
    => /\ result.st \in {"threw", "rejected"}
       /\ result.value = "InvalidStateError"

\* C27: clone() of an AudioData or VideoFrame that is not closed returns an
\* object with the bytes, format, timestamp and geometry or channel and rate
\* attributes of the source.
CloneEqualsSource ==
    (/\ input.fn \in {"AudioData.clone", "VideoFrame.clone"}
     /\ result.st # "called"
     /\ ~input.this._data.null)
    => /\ result.st = "returned"
       /\ result.value.format = input.this.format
       /\ result.value.timestamp = input.this.timestamp
       /\ result.value.duration = input.this.duration
       /\ result.value._data = input.this._data
       /\ IF input.fn = "AudioData.clone"
          THEN /\ result.value.sampleRate = input.this.sampleRate
               /\ result.value.numberOfFrames = input.this.numberOfFrames
               /\ result.value.numberOfChannels = input.this.numberOfChannels
          ELSE /\ result.value.codedWidth = input.this.codedWidth
               /\ result.value.codedHeight = input.this.codedHeight
               /\ result.value.visibleRect = input.this.visibleRect
               /\ result.value.displayWidth = input.this.displayWidth
               /\ result.value.displayHeight = input.this.displayHeight

\* The call fails for no reason other than options.frameCount: the plane
\* exists, the conversion is supported, frameOffset is inside the data and the
\* destination has room.
OtherwiseValid ==
    LET this == input.this
        options == input.options
        destFormat == IF options.format # "none" THEN options.format ELSE this.format
    IN /\ ~this._data.null
       /\ IF isInterleaved(destFormat) THEN options.planeIndex = 0
          ELSE options.planeIndex < this.numberOfChannels
       /\ destFormat = this.format \/ destFormat = "f32-planar"
       /\ options.frameOffset < this.numberOfFrames
       /\ input.fn = "AudioData.copyTo" => input.byteLength > 0

\* C28: AudioData.allocationSize and copyTo throw RangeError for
\* options.frameCount exactly when it is greater than numberOfFrames -
\* frameOffset; every smaller or equal frameCount is accepted.
FrameCountAccepted ==
    (/\ input.fn \in {"AudioData.allocationSize", "AudioData.copyTo"}
     /\ result.st # "called"
     /\ input.options.hasFrameCount
     /\ OtherwiseValid)
    => ((result.st = "threw")
        <=> input.options.frameCount
            > input.this.numberOfFrames - input.options.frameOffset)

\* rect lies inside the coded area, and its corner is a multiple of the
\* sub-sampling factors of every plane of format.
InsideAndAligned(format, codedWidth, codedHeight, rect) ==
    /\ rect.x + rect.width <= codedWidth
    /\ rect.y + rect.height <= codedHeight
    /\ \A i \in 0..(numPlanes(format) - 1) :
          /\ rect.x % horizontalSubSamplingFactor(format, i) = 0
          /\ rect.y % verticalSubSamplingFactor(format, i) = 0

\* C29: a VideoFrame that was constructed has its visibleRect inside the coded
\* area and aligned to the sub-sampling of every plane of its format; a
\* construction whose visibleRect is not fails with TypeError.
VisibleRectAligned ==
    (input.fn = "VideoFrame" /\ result.st # "called")
    => /\ result.st = "returned"
          => InsideAndAligned(result.value.format, result.value.codedWidth,
                              result.value.codedHeight, result.value.visibleRect)
       /\ (/\ input.init.visibleRect.given
           /\ ~InsideAndAligned(input.init.format, input.init.codedWidth,
                                input.init.codedHeight, input.init.visibleRect))
          => result.st = "threw" /\ result.value = "TypeError"

\* A frame was constructed with a visible rectangle that does not begin at the
\* corner of the coded area.
CroppedFrameWitness ==
    /\ input.fn = "VideoFrame"
    /\ result.st = "returned"
    /\ result.value.visibleRect.x > 0
    /\ result.value.visibleRect.y > 0
    /\ result.value.format = "I420"

\* C30: the timestamp of the chunk differs by at most 1 microsecond from the
\* timestamp of the frame it was encoded from.
ChunkTimestampExact ==
    (input.fn = "encode" /\ result.st = "returned")
    => /\ result.value <= input.timestamp + 1
       /\ input.timestamp <= result.value + 1

\* C39: in every frame the constructor makes from a buffer, with a layout
\* given or computed by default, the stride of each plane is at least the
\* bytes of one row of the plane (coded width divided by the horizontal
\* sub-sampling factor, times the bytes per sample), and the buffer the frame
\* keeps reaches to the end of the last row of every plane.
RowBytes(this, i) ==
    (this.codedWidth \div horizontalSubSamplingFactor(this.format, i))
    * sampleBytes(this.format, i)
Rows(this, i) == this.codedHeight \div verticalSubSamplingFactor(this.format, i)

StrideCoversRow ==
    (input.fn = "VideoFrame" /\ result.st = "returned")
    => LET this == result.value IN
       \A i \in 0..(numPlanes(this.format) - 1) :
          LET plane == this._layout[i + 1] IN
          /\ plane.stride >= RowBytes(this, i)
          /\ Rows(this, i) > 0
             => plane.offset + plane.stride * (Rows(this, i) - 1) + RowBytes(this, i)
                <= Len(this._data.elements)

\* The init is accepted once its display size is replaced by a proper one.
ValidButDisplay(init, byteLength) ==
    _constructBuffer(Buffer(byteLength), [init EXCEPT !.display = Display(1, 1)],
                     FALSE).st = "returned"

\* C40: the constructor accepts an init without displayWidth and
\* displayHeight, with or without a visibleRect, and the frame's display size
\* is then its visible size; an init with only one of the two, or with one
\* of them 0, is refused with TypeError.
DisplayBothOrNeither ==
    (input.fn = "VideoFrame" /\ result.st # "called")
    => LET init == input.init
           d == init.display
           visible == IF init.visibleRect.given THEN init.visibleRect
                      ELSE Rect(0, 0, init.codedWidth, init.codedHeight)
       IN /\ (~d.hasWidth /\ ~d.hasHeight /\ ValidButDisplay(init, input.byteLength))
             => /\ result.st = "returned"
                /\ result.value.displayWidth = visible.width
                /\ result.value.displayHeight = visible.height
          /\ (\/ d.hasWidth # d.hasHeight
              \/ d.hasWidth /\ d.width = 0
              \/ d.hasHeight /\ d.height = 0)
             => result = Threw("TypeError")

\* C38: the frame the queued step encodes is made of the data and the
\* attributes the argument of encode() had when encode() was called, whether
\* or not the argument was closed after the call.
EncodesArgumentAsGiven ==
    (input.fn \in {"AudioEncoder.encode", "VideoEncoder.encode"}
     /\ result.st = "encoded")
    => result.value.frame = IF input.fn = "AudioEncoder.encode"
                            THEN AudioFrame(result.value.data)
                            ELSE VideoEncoderFrame(result.value.data)


\* ---------------------------------------------------------------------------
\* The encoder pipeline: AudioEncoder and VideoEncoder with the resample
\* filter, the rescaler and the backend instances they live in.  Each step of
\* the promise chain this._p is one action; the steps run in the order in
\* which they were appended.
\* ---------------------------------------------------------------------------


\* frame_size as ff_init_encoder returns it for the configured codec.
FrameSize == 2

\* Most whole frames the resample filter may hold back while it is fed.
MaxHeld == 1

\* What configure() leaves in _filter_out_ctx and in _swsOut.
AudioOutput == [sample_rate |-> 48000, frame_size |-> FrameSize]
VideoOutput == [width |-> 2, height |-> 2, format |-> "I420"]

\* The arguments of encode(): AudioData of two formats, each one frame and a
\* half long, with a timestamp before or after 0; VideoFrames that match the
\* configured output and VideoFrames that need the rescaler.
EncoderAudioDatas ==
    {NewAudioData([format |-> f, sampleRate |-> AudioOutput.sample_rate,
                   numberOfFrames |-> FrameSize + 1, numberOfChannels |-> 1,
                   timestamp |-> t, data |-> Buffer(FrameSize + 1)]).value :
        f \in {"s16", "f32"}, t \in AudioTimestamps}
EncoderVideoFrames ==
    {_constructBuffer(Buffer(4 * MaxDim * MaxDim),
                      [format |-> shape[1], codedWidth |-> shape[2],
                       codedHeight |-> shape[2], visibleRect |-> NoRect,
                       display |-> NoDisplay, timestamp |-> t, duration |-> d,
                       layout |-> <<>>],
                      FALSE).value :
        shape \in {<<"I420", VideoOutput.width>>, <<"I444", VideoOutput.width>>,
                   <<"I444", 1>>},
        t \in VideoTimestamps, d \in Durations}

\* The variables of the other specifications the pipeline leaves alone.
pipelineRest == <<cls, prom, _p, libav, c, filt, pool, out, failed, ev, unsupported,
                  metadataFilled, delivered, input, result>>

InitPipeline == Init /\ IsEncoder(cls)

\* this._p = this._p.then(step)
Enqueue(q, kind, arg) == [q EXCEPT !.steps = Append(@, [kind |-> kind, arg |-> arg])]

NoArg == [none |-> TRUE]

\* A public method was called and returned or threw.
EncoderCalled(op, threw, codec) ==
    /\ calls < MaxCalls
    /\ calls' = calls + 1
    /\ lastCall' = [op |-> op, threw |-> threw, detached |-> FALSE, codec |-> codec]
    /\ UNCHANGED <<enc, backend, trace, errorLog, fails, pipelineRest>>

\* configure(config) with a supported config: _free is queued only when
\* this._libav is set at the moment of the call.
EncoderConfigure ==
    IF state = "closed"
    THEN /\ EncoderCalled("configure", "InvalidStateError", "supported")
         /\ UNCHANGED <<state, queueSize, queue>>
    ELSE /\ EncoderCalled("configure", "none", "supported")
         /\ state' = "configured"
         /\ queue' = Enqueue(IF enc._libav # 0 THEN Enqueue(queue, "free", NoArg)
                                               ELSE queue,
                             "configure", NoArg)
         /\ UNCHANGED queueSize

\* encode(data): the argument is cloned and the clone is queued.
EncoderEncode(data) ==
    LET copy == IF cls = "AudioEncoder" THEN AudioData_clone(data)
                                        ELSE VideoFrame_clone(data) IN
    IF state # "configured"
    THEN /\ EncoderCalled("code", "InvalidStateError", "-")
         /\ UNCHANGED <<state, queueSize, queue>>
    ELSE IF copy.st = "threw"
    THEN /\ EncoderCalled("code", copy.value, "-")
         /\ UNCHANGED <<state, queueSize, queue>>
    ELSE /\ EncoderCalled("code", "none", "-")
         /\ queueSize' = queueSize + 1
         /\ queue' = Enqueue(queue, "encode", copy.value)
         /\ UNCHANGED state

EncoderFlush ==
    IF state # "configured"
    THEN /\ EncoderCalled("flush", "InvalidStateError", "-")
         /\ UNCHANGED <<state, queueSize, queue>>
    ELSE /\ EncoderCalled("flush", "none", "-")
         /\ queue' = Enqueue(queue, "flush", NoArg)
         /\ UNCHANGED <<state, queueSize>>

\* reset(): _resetX.
EncoderReset ==
    IF state = "closed"
    THEN /\ EncoderCalled("reset", "InvalidStateError", "-")
         /\ UNCHANGED <<state, queueSize, queue>>
    ELSE /\ EncoderCalled("reset", "none", "-")
         /\ state' = "unconfigured"
         /\ queue' = Enqueue(queue, "free", NoArg)
         /\ UNCHANGED queueSize

\* close(): _closeX(AbortError) runs _resetX, then queues _free again.
EncoderClose ==
    IF state = "closed"
    THEN /\ EncoderCalled("close", "InvalidStateError", "-")
         /\ UNCHANGED <<state, queueSize, queue>>
    ELSE /\ EncoderCalled("close", "none", "-")
         /\ state' = "closed"
         /\ queue' = Enqueue(Enqueue(queue, "free", NoArg), "free", NoArg)
         /\ UNCHANGED queueSize

\* --- the steps of the chain ---

Runnable(kind) ==
    /\ queue.steps # <<>>
    /\ ~queue.rejected
    /\ Head(queue.steps).kind = kind

Popped == [queue EXCEPT !.steps = Tail(@)]

\* The step's promise is rejected: the steps behind it are skipped.
StepRejected(why) == [Popped EXCEPT !.rejected = TRUE, !.why = why]

\* .catch(this._error) follows the configure and the encode steps only.
HasCatch(kind) == kind \in {"configure", "encode"}

\* A step behind a rejected promise does not run.  With a catch the error
\* callback is called and the chain goes on; without, the rejection is
\* handed down.
RunSkip ==
    /\ queue.steps # <<>>
    /\ queue.rejected
    /\ IF HasCatch(Head(queue.steps).kind)
       THEN /\ queue' = [Popped EXCEPT !.rejected = FALSE, !.why = "-"]
            /\ errorLog' = Append(errorLog, queue.why)
       ELSE /\ queue' = Popped
            /\ UNCHANGED errorLog
    /\ UNCHANGED <<state, queueSize, calls, lastCall, fails, enc, backend, trace,
                   pipelineRest>>

\* The objects with handle id that live in backend instance inst.
Owned(objects, id, inst) == {o \in objects : o.id = id /\ o.libav = inst}

\* The encoder holds a handle that names nothing in its current instance:
\* the handle was made in an instance the encoder no longer has.
StaleGraph(e, b) == e._filter_graph # 0 /\ Owned(b.graphs, e._filter_graph, e._libav) = {}
StaleContext(e, b) == e._sws # 0 /\ Owned(b.contexts, e._sws, e._libav) = {}

\* libavs.get(): an idle instance if there is one, a new one otherwise.
LibavGet(b) ==
    IF b.libavs # <<>>
    THEN [id |-> Head(b.libavs), backend |-> [b EXCEPT !.libavs = Tail(@)]]
    ELSE [id |-> b.instances + 1, backend |-> [b EXCEPT !.instances = @ + 1]]

\* AudioEncoder._free and VideoEncoder._free.
_free(k, e, b) ==
    LET e1 == IF k = "AudioEncoder" /\ e._filter_graph # 0
              THEN [e EXCEPT !._filter_in_ctx = <<>>, !._filter_out_ctx = <<>>,
                             !._filter_graph = 0]
              ELSE IF k = "VideoEncoder" /\ e._sws # 0
              THEN [e EXCEPT !._sws = 0, !._swsFrame = 0, !._swsIn = <<>>,
                             !._swsOut = <<>>]
              ELSE e
        b1 == IF k = "AudioEncoder"
              THEN [b EXCEPT !.graphs = @ \ Owned(@, e._filter_graph, e._libav)]
              ELSE IF e._sws # 0
              THEN [b EXCEPT !.contexts = @ \ Owned(@, e._sws, e._libav),
                             !.frames = @ \ Owned(@, e._swsFrame, e._libav)]
              ELSE b
    IN [enc |-> [e1 EXCEPT !._c = 0, !._libav = 0],
        backend |-> IF e._libav # 0 THEN [b1 EXCEPT !.libavs = Append(@, e._libav)]
                                    ELSE b1]

\* The _free step.  Freeing through a stale handle is undefined in the
\* backend: it either traps, which rejects the step before anything else is
\* released, or goes unnoticed.
RunFree(outcome) ==
    /\ Runnable("free")
    /\ outcome = "throws" => StaleGraph(enc, backend) \/ StaleContext(enc, backend)
    /\ IF outcome = "throws"
       THEN /\ queue' = StepRejected("BackendError")
            /\ UNCHANGED <<enc, backend>>
       ELSE /\ queue' = Popped
            /\ enc' = _free(cls, enc, backend).enc
            /\ backend' = _free(cls, enc, backend).backend
    /\ UNCHANGED <<state, queueSize, calls, lastCall, fails, errorLog, trace,
                   pipelineRest>>

\* The configure step: a backend instance and a codec context are made and
\* the output side of the filter or rescaler is noted.  Neither step
\* releases what this._filter_graph or this._sws names.
RunConfigure ==
    /\ Runnable("configure")
    /\ queue' = Popped
    /\ LET got == LibavGet(backend) IN
       /\ backend' = got.backend
       /\ enc' = IF cls = "AudioEncoder"
                 THEN [enc EXCEPT !._libav = got.id, !._c = got.id, !._pts = <<>>,
                                  !._filter_out_ctx = <<AudioOutput>>]
                 ELSE [enc EXCEPT !._libav = got.id, !._c = got.id,
                                  !._sws = 0, !._swsFrame = 0,
                                  !._swsOut = <<VideoOutput>>]
    /\ trace' = [NoTrace EXCEPT !.last = trace.last]
    /\ UNCHANGED <<state, queueSize, calls, lastCall, fails, errorLog, pipelineRest>>

\* --- the resample filter ---

RECURSIVE Samples(_)
Samples(frames) ==
    IF frames = <<>> THEN 0 ELSE Head(frames).nb_samples + Samples(Tail(frames))

\* ff_filter_multi on a graph whose sink has a fixed frame size: the samples
\* fed are added to those the graph holds, whole frames come out except for
\* held ones the filter keeps back, and at the end of the stream (fin)
\* everything comes out, the last frame shorter if need be.
ff_filter_multi(graph, frames, fin, held) ==
    LET total == graph.buffered + Samples(frames)
        whole == total \div graph.frame_size
        rest == total % graph.frame_size
        kept == IF fin THEN 0 ELSE IF held < whole THEN held ELSE whole
        n == whole - kept
    IN [nb |-> [k \in 1..n |-> graph.frame_size]
               \o (IF fin /\ rest > 0 THEN <<rest>> ELSE <<>>),
        buffered |-> IF fin THEN 0 ELSE rest + kept * graph.frame_size]

\* AudioEncoder._filter: the frames that leave the filter are stamped from
\* this._pts, which starts at the pts word of the first frame fed, and get 0
\* as their high word.
_filter(e, graph, frames, fin, held) ==
    LET start == IF frames # <<>> /\ e._pts = <<>> THEN <<frames[1].pts>> ELSE e._pts
        res == ff_filter_multi(graph, frames, fin, held)
        first == IF start = <<>> THEN 0 ELSE start[1]
        fframes == [k \in 1..Len(res.nb) |->
                      [pts |-> first + Samples([j \in 1..(k - 1) |->
                                                  [nb_samples |-> res.nb[j]]]),
                       ptshi |-> 0,
                       nb_samples |-> res.nb[k]]]
    IN [fframes |-> fframes,
        _pts |-> IF fframes = <<>> THEN start ELSE <<first + Samples(fframes)>>,
        buffered |-> res.buffered]

\* A call of the filter through a stale handle that goes unnoticed gives no
\* frames and changes no graph.
_filterStale(e, frames) ==
    [fframes |-> <<>>,
     _pts |-> IF frames # <<>> /\ e._pts = <<>> THEN <<frames[1].pts>> ELSE e._pts,
     buffered |-> 0]

\* The frames drained at a rebuild that are given to the codec: those of
\* exactly the codec's frame size.
WholeFrameMutant(nb_samples, frame_size) == TRUE

WholeFrame(nb_samples, frame_size) == nb_samples = frame_size

\* The input side of the filter an input frame asks for.
FilterInput(frame) ==
    [sample_rate |-> frame.sample_rate, sample_fmt |-> frame.format,
     channel_layout |-> frame.channel_layout]

\* Frames as the trace keeps them: where they came from (the drained tail of
\* the old graph, the new input, or a flush) and at which input of the epoch.
Tagged(frames, from, call) ==
    [k \in 1..Len(frames) |->
        [from |-> from, call |-> call, pts |-> frames[k].pts,
         ptshi |-> frames[k].ptshi, nb_samples |-> frames[k].nb_samples]]

\* The catch of the encode and flush steps: _closeX(ex) is appended.
CatchCloses == Enqueue(Popped, "close", "EncodingError")

\* The encode step of AudioEncoder.  outcome "fails": the codec rejects the
\* frames of the input; "throws": a call through a stale graph handle traps.
RunAudioEncode(outcome, held) ==
    LET dataClone == Head(queue.steps).arg
        made == AudioFrame(dataClone)
        frame == [pts |-> made.pts, ptshi |-> made.ptshi,
                  nb_samples |-> dataClone.numberOfFrames, format |-> made.format,
                  channel_layout |-> made.channel_layout,
                  sample_rate |-> made.sample_rate]
        call == Len(trace.inputs) + 1
        stale == StaleGraph(enc, backend)
        size == enc._filter_out_ctx[1].frame_size
        old == Owned(backend.graphs, enc._filter_graph, enc._libav)
        changed == /\ enc._filter_in_ctx # <<>>
                   /\ enc._filter_in_ctx[1] # FilterInput(frame)
        \* the old graph is drained, its whole frames are encoded, it is freed
        tail == IF ~changed \/ old = {} THEN _filterStale(enc, <<>>)
                ELSE _filter(enc, CHOOSE g \in old : TRUE, <<>>, TRUE, 0)
        tailSent == SelectSeq(tail.fframes,
                              LAMBDA f : WholeFrame(f.nb_samples, size))
        e1 == IF changed
              THEN [enc EXCEPT !._pts = tail._pts, !._filter_in_ctx = <<>>,
                               !._filter_graph = 0]
              ELSE enc
        b1 == IF changed THEN [backend EXCEPT !.graphs = @ \ old] ELSE backend
        \* a graph is built if there is none
        build == e1._filter_graph = 0
        id == b1.handles + 1
        e2 == IF build
              THEN [e1 EXCEPT !._filter_in_ctx = <<FilterInput(frame)>>,
                              !._filter_graph = id]
              ELSE e1
        b2 == IF build
              THEN [b1 EXCEPT !.handles = id,
                              !.graphs = @ \cup {[id |-> id, libav |-> e1._libav,
                                                  frame_size |-> size,
                                                  buffered |-> 0]}]
              ELSE b1
        \* the input goes through the graph
        now == Owned(b2.graphs, e2._filter_graph, e2._libav)
        res == IF now = {} THEN _filterStale(e2, <<frame>>)
               ELSE _filter(e2, CHOOSE g \in now : TRUE, <<frame>>, FALSE, held)
        e3 == [e2 EXCEPT !._pts = res._pts]
        b3 == [b2 EXCEPT !.graphs = (@ \ now)
                            \cup {[g EXCEPT !.buffered = res.buffered] : g \in now}]
        passed == [trace EXCEPT !.inputs = Append(@, frame),
                                !.last = <<FilterInput(frame)>>,
                                !.filtered = @ \o tail.fframes \o res.fframes]
    IN
    /\ cls = "AudioEncoder"
    /\ Runnable("encode")
    /\ queueSize' = queueSize - 1
    /\ outcome = "throws" => stale
    /\ outcome # "ok" => held = 0
    /\ CASE outcome = "throws" ->
              \* the first call through the stale handle traps; a _filter call
              \* with a frame has set this._pts by then
              /\ queue' = CatchCloses
              /\ enc' = IF changed THEN enc
                        ELSE [enc EXCEPT !._pts = _filterStale(enc, <<frame>>)._pts]
              /\ UNCHANGED <<backend, trace, fails>>
         [] outcome = "fails" ->
              /\ fails < MaxFail
              /\ fails' = fails + 1
              /\ queue' = CatchCloses
              /\ enc' = e3
              /\ backend' = b3
              /\ trace' = [passed EXCEPT !.sent = @ \o Tagged(tailSent, "tail", call)]
         [] OTHER ->
              /\ queue' = Popped
              /\ enc' = e3
              /\ backend' = b3
              /\ trace' = [passed EXCEPT
                    !.sent = @ \o Tagged(tailSent, "tail", call)
                               \o Tagged(res.fframes, "input", call),
                    !.chunks = @ \o Tagged(tailSent, "tail", call)
                                 \o Tagged(res.fframes, "input", call)]
              /\ UNCHANGED fails
    /\ UNCHANGED <<state, calls, lastCall, errorLog, pipelineRest>>

\* --- the rescaler ---

\* The input side of the rescaler a frame asks for.
ScalerInput(frame) ==
    [width |-> frame.width, height |-> frame.height, format |-> frame.format]

\* The encode step of VideoEncoder.  A frame that differs from the configured
\* output goes through the rescaler; the context is replaced when there is
\* none or when the frame differs from the cached input, and the scratch
\* frame is allocated when there is none.
RunVideoEncode(outcome) ==
    LET frameClone == Head(queue.steps).arg
        frame == VideoEncoderFrame(frameClone)
        scale == ScalerInput(frame) # enc._swsOut[1]
        fresh == scale /\ (enc._sws = 0 \/ enc._swsIn # <<ScalerInput(frame)>>)
        b1 == IF fresh /\ enc._sws # 0
              THEN [backend EXCEPT !.contexts = @ \ Owned(@, enc._sws, enc._libav)]
              ELSE backend
        sws == b1.handles + 1
        b2 == IF fresh
              THEN [b1 EXCEPT !.handles = sws,
                              !.contexts = @ \cup {[id |-> sws, libav |-> enc._libav]}]
              ELSE b1
        swsFrame == b2.handles + 1
        alloc == fresh /\ enc._swsFrame = 0
        b3 == IF alloc
              THEN [b2 EXCEPT !.handles = swsFrame,
                              !.frames = @ \cup {[id |-> swsFrame,
                                                  libav |-> enc._libav]}]
              ELSE b2
        e3 == IF fresh
              THEN [enc EXCEPT !._sws = sws, !._swsIn = <<ScalerInput(frame)>>,
                               !._swsFrame = IF alloc THEN swsFrame ELSE @]
              ELSE enc
        entry == [from |-> "input", call |-> Len(trace.inputs) + 1,
                  pts |-> frame.pts, ptshi |-> frame.ptshi, nb_samples |-> 1]
    IN
    /\ cls = "VideoEncoder"
    /\ Runnable("encode")
    /\ queueSize' = queueSize - 1
    /\ enc' = e3
    /\ backend' = b3
    /\ IF outcome = "fails"
       THEN /\ fails < MaxFail
            /\ fails' = fails + 1
            /\ queue' = CatchCloses
            /\ trace' = [trace EXCEPT !.inputs = Append(@, ScalerInput(frame))]
       ELSE /\ queue' = Popped
            /\ trace' = [trace EXCEPT !.inputs = Append(@, ScalerInput(frame)),
                                      !.sent = Append(@, entry),
                                      !.chunks = Append(@, entry)]
            /\ UNCHANGED fails
    /\ UNCHANGED <<state, calls, lastCall, errorLog, pipelineRest>>

\* The flush step.  Nothing happens without a codec context.  AudioEncoder
\* drains the filter first, and here the short last frame is encoded too.
RunFlush(outcome) ==
    LET now == Owned(backend.graphs, enc._filter_graph, enc._libav)
        drains == cls = "AudioEncoder" /\ enc._filter_graph # 0
        res == IF ~drains \/ now = {} THEN _filterStale(enc, <<>>)
               ELSE _filter(enc, CHOOSE g \in now : TRUE, <<>>, TRUE, 0)
        call == Len(trace.inputs)
    IN
    /\ Runnable("flush")
    /\ outcome = "throws" => drains /\ StaleGraph(enc, backend)
    /\ IF enc._c = 0
       THEN /\ outcome = "ok"
            /\ queue' = Popped
            /\ UNCHANGED <<enc, backend, trace, fails>>
       ELSE CASE outcome = "throws" ->
                   /\ queue' = CatchCloses
                   /\ UNCHANGED <<enc, backend, trace, fails>>
              [] outcome = "fails" ->
                   /\ fails < MaxFail
                   /\ fails' = fails + 1
                   /\ queue' = CatchCloses
                   /\ enc' = [enc EXCEPT !._pts = res._pts]
                   /\ backend' = [backend EXCEPT !.graphs = (@ \ now)
                                     \cup {[g EXCEPT !.buffered = 0] : g \in now}]
                   /\ trace' = [trace EXCEPT !.filtered = @ \o res.fframes]
              [] OTHER ->
                   /\ queue' = Popped
                   /\ enc' = [enc EXCEPT !._pts = res._pts]
                   /\ backend' = [backend EXCEPT !.graphs = (@ \ now)
                                     \cup {[g EXCEPT !.buffered = 0] : g \in now}]
                   /\ trace' = [trace EXCEPT
                         !.filtered = @ \o res.fframes,
                         !.sent = @ \o Tagged(res.fframes, "flush", call),
                         !.chunks = @ \o Tagged(res.fframes, "flush", call)]
                   /\ UNCHANGED fails
    /\ UNCHANGED <<state, queueSize, calls, lastCall, errorLog, pipelineRest>>

\* The step the catch of an encode or flush step appended: _closeX(ex).
\* _resetX throws when the encoder is closed already; otherwise _free is
\* queued by _resetX and again by _closeX, and then the error callback.
RunClose ==
    /\ Runnable("close")
    /\ IF state = "closed"
       THEN /\ queue' = StepRejected("InvalidStateError")
            /\ UNCHANGED state
       ELSE /\ state' = "closed"
            /\ queue' = Enqueue(Enqueue(Enqueue(Popped, "free", NoArg), "free", NoArg),
                                "error", Head(queue.steps).arg)
    /\ UNCHANGED <<queueSize, calls, lastCall, fails, errorLog, enc, backend, trace,
                   pipelineRest>>

\* The error callback is called with the exception.
RunError ==
    /\ Runnable("error")
    /\ queue' = Popped
    /\ errorLog' = Append(errorLog, Head(queue.steps).arg)
    /\ UNCHANGED <<state, queueSize, calls, lastCall, fails, enc, backend, trace,
                   pipelineRest>>

NextPipeline ==
    \/ EncoderConfigure
    \/ \E data \in IF cls = "AudioEncoder" THEN EncoderAudioDatas
                                           ELSE EncoderVideoFrames :
          EncoderEncode(data)
    \/ EncoderFlush
    \/ EncoderReset
    \/ EncoderClose
    \/ RunSkip
    \/ \E outcome \in {"ok", "throws"} : RunFree(outcome)
    \/ RunConfigure
    \/ \E outcome \in {"ok", "fails", "throws"}, held \in 0..MaxHeld :
          RunAudioEncode(outcome, held)
    \/ \E outcome \in {"ok", "fails"} : RunVideoEncode(outcome)
    \/ \E outcome \in {"ok", "fails", "throws"} : RunFlush(outcome)
    \/ RunClose
    \/ RunError

SpecPipeline == InitPipeline /\ [][NextPipeline]_vars


\* --- properties of the encoder pipeline ---

\* An encode step of AudioEncoder ran to its end.
AudioEncoded == cls = "AudioEncoder" /\ Runnable("encode") /\ queue' = Popped

GraphIds(b) == {g.id : g \in b.graphs}

\* C31: the resample filter graph is built when there is none and rebuilt
\* exactly when an input's sample format, channel layout or sample rate
\* differs from the previous input's: equal consecutive inputs share one
\* graph, a change frees the old graph and builds one new graph, and at no
\* time is there more than one filter graph.
FilterGraphRebuilt ==
    [][/\ Cardinality(backend'.graphs) <= 1
       /\ AudioEncoded =>
             IF backend.graphs = {}
             THEN Cardinality(backend'.graphs) = 1
             ELSE IF trace.last = trace'.last
             THEN GraphIds(backend') = GraphIds(backend)
             ELSE /\ GraphIds(backend') \cap GraphIds(backend) = {}
                  /\ Cardinality(backend'.graphs) = 1
                  /\ backend'.handles = backend.handles + 1]_vars

\* The 64-bit pts of a frame, from its two words.
Pts64(frame) == i64tof64(frame.pts, frame.ptshi)

\* C32: within one configuration epoch the pts of the frames that leave the
\* filter starts at the pts of the first input frame, and each next pts is
\* the previous one plus the previous frame's sample count, whatever the
\* later inputs' timestamps are and whether or not the graph was rebuilt or
\* flushed in between.
PtsContiguous ==
    cls = "AudioEncoder" =>
        /\ trace.filtered # <<>> =>
              Pts64(trace.filtered[1]) = Pts64(trace.inputs[1])
        /\ \A k \in 1..(Len(trace.filtered) - 1) :
              Pts64(trace.filtered[k + 1])
              = Pts64(trace.filtered[k]) + trace.filtered[k].nb_samples

\* In a sequence of the trace the drained frames of an input come before the
\* frames of that input itself.
TailFirst(entries) ==
    \A i, j \in DOMAIN entries :
        (/\ entries[i].call = entries[j].call
         /\ entries[i].from = "tail"
         /\ entries[j].from = "input") => i < j

\* C33: at a rebuild the frames drained from the old graph are given to the
\* codec before the frames of the new input and their packets are delivered
\* first, and no drained frame whose sample count differs from the codec's
\* frame size is given to the codec.
DrainedBeforeNew ==
    cls = "AudioEncoder" =>
        /\ TailFirst(trace.sent)
        /\ TailFirst(trace.chunks)
        /\ \A i \in DOMAIN trace.sent :
              trace.sent[i].from = "tail" => trace.sent[i].nb_samples = FrameSize

\* A rebuild whose drained frames were encoded and delivered ahead of the
\* frames of the input that caused it.
DrainedBeforeNewWitness ==
    /\ cls = "AudioEncoder"
    /\ \E i, j \in DOMAIN trace.chunks :
          /\ i < j
          /\ trace.chunks[i].from = "tail"
          /\ trace.chunks[j].from = "input"
          /\ trace.chunks[i].call = trace.chunks[j].call
    /\ trace.sent = trace.chunks
    /\ Samples(trace.inputs) > Samples(trace.sent)

\* The graphs an encode step of AudioEncoder freed.
GraphsFreed ==
    IF cls = "AudioEncoder" /\ Runnable("encode") /\ queue' # queue
    THEN {g \in backend.graphs : g.id \notin GraphIds(backend')}
    ELSE {}

\* C34: a rebuild drops nothing: the samples the old graph still held are
\* all given to the codec by the step that frees it.
RebuildKeepsSamples ==
    [][\A g \in GraphsFreed :
          LET new == SubSeq(trace'.sent, Len(trace.sent) + 1, Len(trace'.sent))
          IN Samples(SelectSeq(new, LAMBDA f : f.from = "tail")) = g.buffered]_vars

\* The chain is empty and the last call was one that releases the codec.
Released ==
    /\ queue.steps = <<>>
    /\ lastCall.op \in {"configure", "reset", "close"}
    /\ lastCall.threw = "none"

\* C35: VideoEncoder has at most one rescaler context and one scratch frame
\* alive, and once the chain has drained after configure, reset or close
\* none is left.
OneRescalerContext ==
    cls = "VideoEncoder" =>
        /\ Cardinality(backend.contexts) <= 1
        /\ Cardinality(backend.frames) <= 1
        /\ Released => backend.contexts = {} /\ backend.frames = {}

====
